---- MODULE Spec2Model ----
(***************************************************************************)
(* Nearest-feature resolver of the bike-nav front end: the great-circle    *)
(* distance, the nearest-feature scans (findNearestIntersection in its     *)
(* variants, findNearestIntersectionSmart), the road-graph construction    *)
(* (buildHamiltonIntersections) and the intersection-name formatting.      *)
(*                                                                         *)
(* Numbers.  Coordinates are integers counting steps of 5e-5 degrees (a    *)
(* quarter of the snap precision GEO_PREC = 2e-4) near the equator, where  *)
(* cos(lat) is 1 to within rounding.  Distances are whole decimetres.      *)
(* Strings.  A string is a sequence of pieces: a piece is a maximal run of *)
(* word characters (a word) or a single non-word character (" ", "/",      *)
(* "&", ".").  The regular expressions of the source act on whole word     *)
(* runs (\b...\b), so they are modelled piece by piece.                    *)
(***************************************************************************)
EXTENDS Integers, Sequences, FiniteSets, TLC

VARIABLES
  features, call, result,                 \* the nearest-feature scans
  segments, built, nodes, picked, label,  \* the road graph of the Hamilton path
  name, applied, base,                    \* street-name normalization
  props, candidates, displayName,         \* the display name of a matched feature
  update, outcome, intersectionCoords,    \* a position update of a caller,
  geocode, locationName,                  \* its reverse-geocoding request, #location-name
  polyline, standing, nearestPoint,       \* nearestPointOnLineString on one line
  circle, growing, circleAnimationId,     \* the pulsing circle and its interval,
  ticks,                                  \* the interval callbacks run so far
  currentTranslateY, transform, openClass, draggingClass,  \* the pull-up drawer
  isDragging, startY, startTranslateY, userSelect, settled,
  fetchState, geoData, timer, positionRequests,  \* live location tracking
  updates, display, userMarker, markers

scanVars == <<features, call, result>>
graphVars == <<segments, built, nodes, picked, label>>
nameVars == <<name, applied, base>>
propVars == <<props, candidates, displayName>>
flowVars == <<update, outcome, intersectionCoords, geocode, locationName>>
lineVars == <<polyline, standing, nearestPoint>>
coreVars == <<scanVars, graphVars, nameVars, propVars, flowVars>>
circleVars == <<circle, growing, circleAnimationId, ticks>>
drawerVars ==
  <<currentTranslateY, transform, openClass, draggingClass, isDragging, startY, startTranslateY,
    userSelect, settled>>
liveVars == <<fetchState, geoData, timer, positionRequests, updates, display, userMarker, markers>>
otherVars == <<lineVars, circleVars, drawerVars, liveVars>>
vars == <<coreVars, otherVars>>

\* ------------------------------------------------------------------ numbers

\* JS Infinity, NaN and undefined as numbers outside the range of every
\* coordinate and distance of the model.
Infinity == 2000000000
NaN == 0 - 2000000000
Undefined == 0 - 2000000001

IsNum(x) == x # NaN /\ x # Undefined

\* a < b and a <= b of JS: false as soon as one side is NaN.
Less(a, b) == IsNum(a) /\ IsNum(b) /\ a < b
LessEq(a, b) == IsNum(a) /\ IsNum(b) /\ a <= b

\* Decimetres per coordinate step on the sphere of radius R = 6371000 m:
\* R * (pi / 180) * 5e-5 = 5.56 m.
UnitDm == 56

RECURSIVE SqrtSearch(_, _, _)
SqrtSearch(n, lo, hi) ==
  IF lo >= hi THEN lo
  ELSE LET mid == (lo + hi + 1) \div 2
       IN IF mid * mid <= n THEN SqrtSearch(n, mid, hi)
                            ELSE SqrtSearch(n, lo, mid - 1)

\* Math.sqrt, rounded down to a whole number.
ISqrt(n) == SqrtSearch(n, 0, 46340)

\* A distance that forgets to subtract the first latitude.
haversineFromOrigin(lat1, lon1, lat2, lon2) ==
  IF ~(IsNum(lat1) /\ IsNum(lon1) /\ IsNum(lat2) /\ IsNum(lon2)) THEN NaN
  ELSE ISqrt(UnitDm * UnitDm * (lat2 * lat2 + (lon2 - lon1) * (lon2 - lon1)))

\* haversineDistance on the model's grid: for the small angles of the grid
\* R * 2 * atan2(sqrt(a), sqrt(1 - a)) is R * sqrt(dLat^2 + dLon^2) (radians);
\* a NaN or undefined argument gives NaN.
haversineDistance(lat1, lon1, lat2, lon2) ==
  IF ~(IsNum(lat1) /\ IsNum(lon1) /\ IsNum(lat2) /\ IsNum(lon2)) THEN NaN
  ELSE LET dLat == lat2 - lat1
           dLon == lon2 - lon1
       IN ISqrt(UnitDm * UnitDm * (dLat * dLat + dLon * dLon))

\* ------------------------------------------------------------------ strings

\* The words of the model: <<spelling, toLowerCase, first letter upper-cased>>.
\* Every other piece (a non-word character, a digit) is left as it is by both.
WordTable ==
  << <<"Main", "main", "Main">>, <<"MAIN", "main", "Main">>, <<"main", "main", "Main">>,
     <<"Elm", "elm", "Elm">>, <<"elm", "elm", "Elm">>,
     <<"King", "king", "King">>, <<"king", "king", "King">>,
     <<"James", "james", "James">>, <<"james", "james", "James">>,
     <<"St", "st", "St">>, <<"ST", "st", "St">>, <<"st", "st", "St">>,
     <<"Street", "street", "Street">>, <<"street", "street", "Street">>,
     <<"Ave", "ave", "Ave">>, <<"ave", "ave", "Ave">>, <<"Av", "av", "Av">>, <<"av", "av", "Av">>,
     <<"Avenue", "avenue", "Avenue">>, <<"avenue", "avenue", "Avenue">>,
     <<"Rd", "rd", "Rd">>, <<"rd", "rd", "Rd">>,
     <<"Road", "road", "Road">>, <<"road", "road", "Road">>,
     <<"N", "n", "N">>, <<"n", "n", "N">>, <<"W", "w", "W">>, <<"w", "w", "W">>,
     <<"North", "north", "North">>, <<"north", "north", "North">>,
     <<"South", "south", "South">>, <<"south", "south", "South">>,
     <<"East", "east", "East">>, <<"east", "east", "East">>,
     <<"West", "west", "West">>, <<"west", "west", "West">>,
     <<"and", "and", "And">>, <<"And", "and", "And">>,
     <<"Grand", "grand", "Grand">>, <<"grand", "grand", "Grand">>,
     <<"Gr", "gr", "Gr">>, <<"gr", "gr", "Gr">>,
     <<"Major", "major", "Major">>, <<"MAJOR", "major", "Major">>, <<"major", "major", "Major">>,
     <<"Minor", "minor", "Minor">>, <<"minor", "minor", "Minor">>,
     <<"Private", "private", "Private">>, <<"private", "private", "Private">>,
     <<"Pedestrian", "pedestrian", "Pedestrian">>, <<"pedestrian", "pedestrian", "Pedestrian">>,
     <<"Collector", "collector", "Collector">>, <<"collector", "collector", "Collector">> >>

Row(p) == CHOOSE r \in 1..Len(WordTable) : WordTable[r][1] = p
IsWord(p) == \E r \in 1..Len(WordTable) : WordTable[r][1] = p

\* String.prototype.toLowerCase, piece by piece.
LowerPiece(p) == IF IsWord(p) THEN WordTable[Row(p)][2] ELSE p
toLowerCase(s) == [i \in 1..Len(s) |-> LowerPiece(s[i])]

\* .replace(/\b\w/g, c => c.toUpperCase()): the first character of every word run.
UpperFirst(p) == IF IsWord(p) THEN WordTable[Row(p)][3] ELSE p

\* .replace(/\s+/g, ' '): a run of spaces becomes one space.
RECURSIVE collapseSpaces(_)
collapseSpaces(s) ==
  IF Len(s) < 2 THEN s
  ELSE IF s[1] = " " /\ s[2] = " " THEN collapseSpaces(Tail(s))
       ELSE <<s[1]>> \o collapseSpaces(Tail(s))

\* String.prototype.trim.
RECURSIVE trimLeft(_)
trimLeft(s) == IF s # <<>> /\ s[1] = " " THEN trimLeft(Tail(s)) ELSE s
RECURSIVE trimRight(_)
trimRight(s) == IF s # <<>> /\ s[Len(s)] = " " THEN trimRight(SubSeq(s, 1, Len(s) - 1)) ELSE s
trim(s) == trimRight(trimLeft(s))

\* toTitleCase / toTitle: lower-case, then upper-case each word's first letter.
toTitle(s) == LET l == toLowerCase(s) IN [i \in 1..Len(l) |-> UpperFirst(l[i])]

\* A property bag: p[key], the empty string standing for a missing property
\* (every use in the source tests the value's truthiness or applies ?? "").
Prop(p, key) == IF key \in DOMAIN p THEN p[key] ELSE <<>>

\* ----------------------------------------------------------------- features

\* A GeoJSON feature.  hasGeometry is FALSE for geometry: null; defined is
\* FALSE for a geometry without a coordinates member.  A coordinate is the
\* tuple <<lon, lat>>, as in GeoJSON.
Geometry(type, coordinates) == [type |-> type, defined |-> TRUE, coordinates |-> coordinates]
NoCoordinates(type) == [type |-> type, defined |-> FALSE, coordinates |-> <<>>]
Feature(g, p) == [hasGeometry |-> TRUE, geometry |-> g, properties |-> p]
NullGeometry(p) == [hasGeometry |-> FALSE, geometry |-> NoCoordinates("none"), properties |-> p]

\* const [lon, lat] = coord: a missing element is undefined.
LonOf(coord) == IF Len(coord) >= 1 THEN coord[1] ELSE Undefined
LatOf(coord) == IF Len(coord) >= 2 THEN coord[2] ELSE Undefined

\* getIntersectionCoords: <<lat, lon>> of a Point or of the first coordinate of
\* a MultiPoint, <<>> (null) for everything else.
pick(isArray, coord) ==
  IF ~isArray \/ Len(coord) < 2 THEN <<>>
  ELSE IF IsNum(coord[2]) /\ IsNum(coord[1]) THEN <<coord[2], coord[1]>> ELSE <<>>

getIntersectionCoords(feature) ==
  LET g == feature.geometry
  IN IF ~feature.hasGeometry THEN <<>>
     ELSE IF g.type = "Point" THEN pick(g.defined, g.coordinates)
     ELSE IF g.type = "MultiPoint"
          THEN IF g.defined /\ Len(g.coordinates) >= 1 THEN pick(TRUE, g.coordinates[1]) ELSE <<>>
     ELSE <<>>

\* isMajorByField(feature, field, value): field is a property key ("" for
\* null), value a string (the empty string for null).
isMajorByField(feature, field, value) ==
  IF field = "" THEN FALSE
  ELSE toLowerCase(Prop(feature.properties, field)) = toLowerCase(value)

\* ------------------------------------------------------- getIntersectionName

\* normalizeStreetName: trim, collapse spaces, lower-case, upper-case each
\* word's first letter.
normalizeStreetName(s) ==
  IF s = <<>> THEN <<>>
  ELSE LET cleaned == collapseSpaces(trim(s))
           lower == toLowerCase(cleaned)
       IN [i \in 1..Len(lower) |-> UpperFirst(lower[i])]

\* combineTwo: `${A} & ${B}`, or the one that is not empty.
combineTwo(a, b) ==
  LET A == normalizeStreetName(a)
      B == normalizeStreetName(b)
  IN IF A # <<>> /\ B # <<>> THEN A \o <<" ", "&", " ">> \o B
     ELSE IF A # <<>> THEN A
     ELSE B

\* The delimiter /\s*(?:\/|&|and)\s*/i has no word boundary: it also matches
\* the letters "and" inside a word, so "Grand" reads "Gr" + and.
AndInside(p) == IF p = "Grand" THEN <<"Gr", "and">> ELSE <<p>>
RECURSIVE Unglued(_)
Unglued(s) == IF s = <<>> THEN <<>> ELSE AndInside(Head(s)) \o Unglued(Tail(s))
IsDelimiter(p) == p \in {"/", "&"} \/ LowerPiece(p) = "and"

\* s.split(delimiter): the delimiter takes the spaces on both of its sides.
RECURSIVE SplitFrom(_, _, _)
SplitFrom(s, cur, parts) ==
  IF s = <<>> THEN Append(parts, cur)
  ELSE IF IsDelimiter(Head(s)) THEN SplitFrom(trimLeft(Tail(s)), <<>>, Append(parts, trimRight(cur)))
       ELSE SplitFrom(Tail(s), Append(cur, Head(s)), parts)

NonEmpty(part) == part # <<>>

\* splitIfCombined: the two parts, or <<>> for null.
splitIfCombined(s) ==
  IF s = <<>> THEN <<>>
  ELSE LET parts == SelectSeq(SplitFrom(Unglued(s), <<>>, <<>>), NonEmpty)
       IN IF Len(parts) = 2 THEN <<parts[1], parts[2]>> ELSE <<>>

\* const parts = splitIfCombined(v); if (parts) return combineTwo(...); return
\* normalizeStreetName(v)
NameOfField(v) ==
  LET parts == splitIfCombined(v)
  IN IF parts # <<>> THEN combineTwo(parts[1], parts[2]) ELSE normalizeStreetName(v)

pairCandidates ==
  << <<"STREET_1", "STREET_2">>, <<"ROAD_NAME_1", "ROAD_NAME_2">>,
     <<"STREET_A", "STREET_B">>, <<"RD1", "RD2">> >>

RECURSIVE FromPairs(_, _)
FromPairs(p, i) ==
  IF i > Len(pairCandidates) THEN <<>>
  ELSE LET a == Prop(p, pairCandidates[i][1])
           b == Prop(p, pairCandidates[i][2])
       IN IF (a # <<>> \/ b # <<>>) /\ combineTwo(a, b) # <<>> THEN combineTwo(a, b)
          ELSE FromPairs(p, i + 1)

RECURSIVE FromSingles(_, _, _)
FromSingles(p, singleCandidates, i) ==
  IF i > Len(singleCandidates) THEN <<"Unnamed", " ", "Intersection">>
  ELSE IF Prop(p, singleCandidates[i]) # <<>> THEN NameOfField(Prop(p, singleCandidates[i]))
       ELSE FromSingles(p, singleCandidates, i + 1)

\* getIntersectionName with the single fields tried before the pairs.
getIntersectionNameSinglesFirst(feature, nameFields) ==
  LET p == feature.properties
      single == FromSingles(p, nameFields \o <<"INTERSECTION_DESC", "NAME", "LABEL", "DESC">>, 1)
  IN IF Prop(p, "STREET_NAME_COMPLETE") # <<>> THEN NameOfField(Prop(p, "STREET_NAME_COMPLETE"))
     ELSE IF single # <<"Unnamed", " ", "Intersection">> THEN single
     ELSE IF FromPairs(p, 1) # <<>> THEN FromPairs(p, 1)
     ELSE single

getIntersectionName(feature, nameFields) ==
  LET p == feature.properties
  IN IF Prop(p, "STREET_NAME_COMPLETE") # <<>> THEN NameOfField(Prop(p, "STREET_NAME_COMPLETE"))
     ELSE IF FromPairs(p, 1) # <<>> THEN FromPairs(p, 1)
     ELSE FromSingles(p, nameFields \o <<"INTERSECTION_DESC", "NAME", "LABEL", "DESC">>, 1)

\* ---------------------------------------------------- nearestPointOnLineString

\* Math.cos(userLat * Math.PI / 180) on the model's grid.
CosLat(userLat) == 1

\* n / d rounded to the nearest whole coordinate step (d > 0).
RoundDiv(n, d) == (2 * n + d) \div (2 * d)

\* No clamping: the projection factor as computed.
Unclamped(lo, hi, x) == x

Clamp(lo, hi, x) == IF x < lo THEN lo ELSE IF x > hi THEN hi ELSE x

\* 1 / 1e-9, the reciprocal of the denominator substituted for a zero-length
\* segment.
EpsInv == 1000000000

\* The projection without the substituted denominator: on a zero-length
\* segment t = 0 / 0 is NaN and so is the candidate.
SegmentCandidateNoEpsilon(userLat, userLon, c1, c2) ==
  LET vx == c2[1] - c1[1]
      vy == c2[2] - c1[2]
      vv == vx * vx + vy * vy
      dot == (userLon - c1[1]) * vx + (userLat - c1[2]) * vy
  IN IF vv = 0 THEN [lat |-> NaN, lon |-> NaN]
     ELSE [lat |-> c1[2] + RoundDiv(Clamp(0, vv, dot) * vy, vv),
           lon |-> c1[1] + RoundDiv(Clamp(0, vv, dot) * vx, vv)]

\* The candidate of one segment (lon1, lat1)-(lon2, lat2): the clamped
\* projection of the query onto it.  t = tNum / tDen.
SegmentCandidate(userLat, userLon, c1, c2) ==
  LET cosLat == CosLat(userLat)
      px == userLon * cosLat
      py == userLat
      ax == c1[1] * cosLat
      ay == c1[2]
      bx == c2[1] * cosLat
      by == c2[2]
      vx == bx - ax
      vy == by - ay
      wx == px - ax
      wy == py - ay
      vv == vx * vx + vy * vy
      tDen == IF vv = 0 THEN 1 ELSE vv
      dot == wx * vx + wy * vy
      tRaw == IF vv = 0 THEN dot * EpsInv ELSE dot
      tNum == Clamp(0, tDen, tRaw)
      cx == ax + RoundDiv(tNum * vx, tDen)
      cy == ay + RoundDiv(tNum * vy, tDen)
  IN [lat |-> cy, lon |-> cx \div cosLat]

RECURSIVE SegmentsFrom(_, _, _, _, _, _)
SegmentsFrom(userLat, userLon, lineCoords, i, best, bestDist) ==
  IF i > Len(lineCoords) - 1 THEN best
  ELSE LET cand == SegmentCandidate(userLat, userLon, lineCoords[i], lineCoords[i + 1])
           d == haversineDistance(userLat, userLon, cand.lat, cand.lon)
       IN IF Less(d, bestDist)
          THEN SegmentsFrom(userLat, userLon, lineCoords, i + 1, cand, d)
          ELSE SegmentsFrom(userLat, userLon, lineCoords, i + 1, best, bestDist)

\* nearestPointOnLineString: [thrown, lat, lon].  lineCoords[0][1] throws a
\* TypeError on an empty array.
nearestPointOnLineString(userLat, userLon, lineCoords) ==
  IF Len(lineCoords) = 0 THEN [thrown |-> TRUE, lat |-> 0, lon |-> 0]
  ELSE LET first == [lat |-> LatOf(lineCoords[1]), lon |-> LonOf(lineCoords[1])]
           best == SegmentsFrom(userLat, userLon, lineCoords, 1, first, Infinity)
       IN [thrown |-> FALSE, lat |-> best.lat, lon |-> best.lon]

\* ------------------------------------------------------------- scan results

\* What a call gives back: nothing yet, null, a TypeError, or a match.  The
\* feature is its index in the collection; name and major are set by
\* findNearestIntersectionSmart only.
NoResult ==
  [kind |-> "none", feature |-> 0, lat |-> 0, lon |-> 0, distance |-> 0, major |-> FALSE, name |-> <<>>]
NullResult == [NoResult EXCEPT !.kind = "null"]
Thrown == [NoResult EXCEPT !.kind = "throw"]
Match(i, la, lo, d, mj) ==
  [kind |-> "match", feature |-> i, lat |-> la, lon |-> lo, distance |-> d, major |-> mj, name |-> <<>>]

\* ------------------------------------------------------ findNearestIntersection

\* The running state of a scan: the best match so far, its distance, and
\* whether a TypeError has ended the call.
ScanState(nearest, minDist, thrown) == [nearest |-> nearest, minDist |-> minDist, thrown |-> thrown]

\* if (d < minDist) { minDist = d; nearest = {feature, lat, lon, distance: d}; }
Closer(userLat, userLon, st, i, lat, lon) ==
  LET d == haversineDistance(userLat, userLon, lat, lon)
  IN IF Less(d, st.minDist) THEN ScanState(Match(i, lat, lon, d, FALSE), d, FALSE) ELSE st

\* A MultiLineString branch that looks at the first part only.
PartsFirstOnly(userLat, userLon, parts, k, i, st) ==
  IF parts = <<>> THEN st
  ELSE LET c == nearestPointOnLineString(userLat, userLon, parts[1])
       IN IF c.thrown THEN ScanState(st.nearest, st.minDist, TRUE)
          ELSE Closer(userLat, userLon, st, i, c.lat, c.lon)

\* The MultiLineString branch: every part updates nearest / minDist itself.
RECURSIVE PartsFrom(_, _, _, _, _, _)
PartsFrom(userLat, userLon, parts, k, i, st) ==
  IF k > Len(parts) THEN st
  ELSE LET c == nearestPointOnLineString(userLat, userLon, parts[k])
       IN IF c.thrown THEN ScanState(st.nearest, st.minDist, TRUE)
          ELSE PartsFrom(userLat, userLon, parts, k + 1, i, Closer(userLat, userLon, st, i, c.lat, c.lon))

\* One iteration of the loop of findNearestIntersection (part_002) on feature i.
Visit(userLat, userLon, feature, i, st) ==
  LET g == feature.geometry
      coords == g.coordinates
      throw == ScanState(st.nearest, st.minDist, TRUE)
  IN IF ~feature.hasGeometry THEN st
     ELSE IF g.type = "Point"
          THEN IF ~g.defined THEN throw
               ELSE Closer(userLat, userLon, st, i, LatOf(coords), LonOf(coords))
     ELSE IF g.type = "LineString"
          THEN IF ~g.defined THEN throw
               ELSE LET c == nearestPointOnLineString(userLat, userLon, coords)
                    IN IF c.thrown THEN throw ELSE Closer(userLat, userLon, st, i, c.lat, c.lon)
     ELSE IF g.type = "MultiLineString"
          THEN IF ~g.defined THEN throw ELSE PartsFrom(userLat, userLon, coords, 1, i, st)
     ELSE IF g.type = "Polygon"
          THEN IF ~g.defined \/ Len(coords) = 0 \/ Len(coords[1]) = 0 THEN throw
               ELSE Closer(userLat, userLon, st, i, LatOf(coords[1][1]), LonOf(coords[1][1]))
     ELSE IF g.type = "MultiPolygon"
          THEN IF ~g.defined \/ Len(coords) = 0 \/ Len(coords[1]) = 0 \/ Len(coords[1][1]) = 0 THEN throw
               ELSE Closer(userLat, userLon, st, i, LatOf(coords[1][1][1]), LonOf(coords[1][1][1]))
     ELSE st

RECURSIVE ScanFrom(_, _, _, _, _)
ScanFrom(userLat, userLon, fs, i, st) ==
  IF i > Len(fs) \/ st.thrown THEN st
  ELSE ScanFrom(userLat, userLon, fs, i + 1, Visit(userLat, userLon, fs[i], i, st))

\* findNearestIntersection(userLat, userLon, features, maxDist) of part_002:
\* Point, LineString, MultiLineString, Polygon and MultiPolygon features.
findNearestIntersection(userLat, userLon, fs, maxDist) ==
  LET st == ScanFrom(userLat, userLon, fs, 1, ScanState(NullResult, Infinity, FALSE))
  IN IF st.thrown THEN Thrown
     ELSE IF LessEq(st.minDist, maxDist) THEN st.nearest ELSE NullResult

\* ------------------------------- findNearestIntersection, first-coordinate variant

\* const [lon, lat] = feature.geometry.coordinates[0]: what the first element
\* of the coordinates is, by the geometry's type.  A Point's first element is
\* a number, which cannot be destructured; a MultiLineString's or a polygon's
\* is an array of arrays, whose elements are not numbers (NaN distance).
VisitFirstCoord(userLat, userLon, feature, i, st) ==
  LET g == feature.geometry
      coords == g.coordinates
      throw == ScanState(st.nearest, st.minDist, TRUE)
  IN IF ~feature.hasGeometry \/ ~g.defined \/ Len(coords) = 0 THEN throw
     ELSE IF g.type = "Point" THEN throw
     ELSE IF g.type \in {"MultiPoint", "LineString"}
          THEN LET d == haversineDistance(userLat, userLon, LatOf(coords[1]), LonOf(coords[1]))
               IN IF Less(d, st.minDist) THEN ScanState(Match(i, 0, 0, d, FALSE), d, FALSE) ELSE st
     ELSE st

RECURSIVE ScanFirstCoordFrom(_, _, _, _, _)
ScanFirstCoordFrom(userLat, userLon, fs, i, st) ==
  IF i > Len(fs) \/ st.thrown THEN st
  ELSE ScanFirstCoordFrom(userLat, userLon, fs, i + 1, VisitFirstCoord(userLat, userLon, fs[i], i, st))

\* findNearestIntersection of app.js (and of the other MultiPoint-only
\* scripts): {feature, distance} or null.
findNearestIntersectionFirstCoord(userLat, userLon, fs, maxDist) ==
  LET st == ScanFirstCoordFrom(userLat, userLon, fs, 1, ScanState(NullResult, Infinity, FALSE))
  IN IF st.thrown THEN Thrown
     ELSE IF LessEq(st.minDist, maxDist) THEN st.nearest ELSE NullResult

\* ------------------------------------------------- findNearestIntersectionSmart

SmartState(nearestMajor, nearestMajorDist, nearestAny, nearestAnyDist) ==
  [nearestMajor |-> nearestMajor, nearestMajorDist |-> nearestMajorDist,
   nearestAny |-> nearestAny, nearestAnyDist |-> nearestAnyDist]

\* One iteration of the loop: nearestAny / nearestMajor hold feature indices,
\* 0 for null.
VisitSmart(userLat, userLon, feature, i, preferMajorField, preferMajorValue, st) ==
  LET coords == getIntersectionCoords(feature)
  IN IF coords = <<>> THEN st
     ELSE LET d == haversineDistance(userLat, userLon, coords[1], coords[2])
              any == IF Less(d, st.nearestAnyDist) THEN <<i, d>> ELSE <<st.nearestAny, st.nearestAnyDist>>
              maj == IF preferMajorField # ""
                        /\ isMajorByField(feature, preferMajorField, preferMajorValue)
                        /\ Less(d, st.nearestMajorDist)
                     THEN <<i, d>> ELSE <<st.nearestMajor, st.nearestMajorDist>>
          IN SmartState(maj[1], maj[2], any[1], any[2])

RECURSIVE SmartFrom(_, _, _, _, _, _, _)
SmartFrom(userLat, userLon, fs, i, preferMajorField, preferMajorValue, st) ==
  IF i > Len(fs) THEN st
  ELSE SmartFrom(userLat, userLon, fs, i + 1, preferMajorField, preferMajorValue,
                 VisitSmart(userLat, userLon, fs[i], i, preferMajorField, preferMajorValue, st))

\* nameFields.length ? nameFields : ['INTERSECTION_DESC','NAME','LABEL']
DefaultNameFields(nameFields) ==
  IF Len(nameFields) # 0 THEN nameFields ELSE <<"INTERSECTION_DESC", "NAME", "LABEL">>

\* A resolver that prefers proximity: the any-class match is returned before
\* the major match.
SmartResultNearestFirst(fs, st, maxDistMeters, nameFields) ==
  IF st.nearestAny # 0 /\ LessEq(st.nearestAnyDist, maxDistMeters)
  THEN LET c == getIntersectionCoords(fs[st.nearestAny])
       IN [Match(st.nearestAny, c[1], c[2], st.nearestAnyDist, FALSE)
             EXCEPT !.name = getIntersectionName(fs[st.nearestAny], DefaultNameFields(nameFields))]
  ELSE IF st.nearestMajor # 0 /\ LessEq(st.nearestMajorDist, maxDistMeters)
  THEN LET c == getIntersectionCoords(fs[st.nearestMajor])
       IN [Match(st.nearestMajor, c[1], c[2], st.nearestMajorDist, TRUE)
             EXCEPT !.name = getIntersectionName(fs[st.nearestMajor], nameFields)]
  ELSE NullResult

\* The two return statements without their range tests.
SmartResultAnyDistance(fs, st, maxDistMeters, nameFields) ==
  IF st.nearestMajor # 0
  THEN LET c == getIntersectionCoords(fs[st.nearestMajor])
       IN [Match(st.nearestMajor, c[1], c[2], st.nearestMajorDist, TRUE)
             EXCEPT !.name = getIntersectionName(fs[st.nearestMajor], nameFields)]
  ELSE IF st.nearestAny # 0
  THEN LET c == getIntersectionCoords(fs[st.nearestAny])
       IN [Match(st.nearestAny, c[1], c[2], st.nearestAnyDist, FALSE)
             EXCEPT !.name = getIntersectionName(fs[st.nearestAny], DefaultNameFields(nameFields))]
  ELSE NullResult

\* The two return statements: the major match within range first, else any
\* match within range, else null.
SmartResult(fs, st, maxDistMeters, nameFields) ==
  IF st.nearestMajor # 0 /\ LessEq(st.nearestMajorDist, maxDistMeters)
  THEN LET c == getIntersectionCoords(fs[st.nearestMajor])
       IN [Match(st.nearestMajor, c[1], c[2], st.nearestMajorDist, TRUE)
             EXCEPT !.name = getIntersectionName(fs[st.nearestMajor], nameFields)]
  ELSE IF st.nearestAny # 0 /\ LessEq(st.nearestAnyDist, maxDistMeters)
  THEN LET c == getIntersectionCoords(fs[st.nearestAny])
       IN [Match(st.nearestAny, c[1], c[2], st.nearestAnyDist, FALSE)
             EXCEPT !.name = getIntersectionName(fs[st.nearestAny], DefaultNameFields(nameFields))]
  ELSE NullResult

findNearestIntersectionSmart(userLat, userLon, fs, maxDistMeters, preferMajorField, preferMajorValue, nameFields) ==
  SmartResult(fs, SmartFrom(userLat, userLon, fs, 1, preferMajorField, preferMajorValue,
                            SmartState(0, Infinity, 0, Infinity)),
              maxDistMeters, nameFields)

\* ------------------------------------------------- buildHamiltonIntersections

\* Coordinate steps per snap cell: GEO_PREC = 2e-4 degrees is four steps of
\* 5e-5 degrees.
PrecSteps == 4

\* Math.round(v / prec): the nearest whole number, a half rounded up.
MathRound(num, den) == (2 * num + den) \div (2 * den)

\* A rounding that truncates downwards instead of to the nearest cell.
rlFloor(v) == v \div PrecSteps

\* const rl = (v) => Math.round(v / prec) * prec, as a cell number.
rl(v) == MathRound(v, PrecSteps)

\* A key that drops the longitude.
_roundKeyLatOnly(lat, lon) == <<rl(lat), 0>>

\* _roundKey(lat, lon): the string `${rl(lat)},${rl(lon)}` is determined by,
\* and determines, the pair of rounded cell numbers.
_roundKey(lat, lon) == <<rl(lat), rl(lon)>>

\* .replace(/\b(north|south|east|west)\b/gi, ''): the whole word is removed.
IsDirection(p) == p \in {"north", "south", "east", "west"}
NotDirection(p) == ~IsDirection(p)

\* The three abbreviation replacements, applied to one word.  "st." is the
\* word "st" followed by ".", so the alternative st\. never matches.
ExpandWord(p) ==
  IF p \in {"st", "street"} THEN "street"
  ELSE IF p \in {"av", "ave", "avenue"} THEN "avenue"
  ELSE IF p \in {"rd", "road"} THEN "road"
  ELSE p

\* The direction pattern without its g flag: only the first direction word
\* is removed.
RECURSIVE DropFirstDirection(_)
DropFirstDirection(s) ==
  IF s = <<>> THEN <<>>
  ELSE IF IsDirection(s[1]) THEN Tail(s)
       ELSE <<s[1]>> \o DropFirstDirection(Tail(s))
baseNameFirstDirectionOnly(s) ==
  LET stripped == DropFirstDirection(toLowerCase(s))
  IN trim(collapseSpaces([i \in 1..Len(stripped) |-> ExpandWord(stripped[i])]))

\* baseName of buildHamiltonIntersections and of formatIntersectionNameFromNode
\* (the two copies are the same text).
baseName(s) ==
  LET lower == toLowerCase(s)
      stripped == SelectSeq(lower, NotDirection)
      expanded == [i \in 1..Len(stripped) |-> ExpandWord(stripped[i])]
  IN trim(collapseSpaces(expanded))

\* p.STREET_NAME_COMPLETE || p.STREET_NAME || p.NAME || p.ROAD_NAME || p.LABEL
rawStreetOf(p) ==
  IF Prop(p, "STREET_NAME_COMPLETE") # <<>> THEN Prop(p, "STREET_NAME_COMPLETE")
  ELSE IF Prop(p, "STREET_NAME") # <<>> THEN Prop(p, "STREET_NAME")
  ELSE IF Prop(p, "NAME") # <<>> THEN Prop(p, "NAME")
  ELSE IF Prop(p, "ROAD_NAME") # <<>> THEN Prop(p, "ROAD_NAME")
  ELSE Prop(p, "LABEL")

\* The accumulator of one Map entry.  key is the Map key; names is the Map
\* rawName -> count and majorNames / minorNames are the Sets, each in
\* insertion order.
NewNode(key) ==
  [key |-> key, latSum |-> 0, lonSum |-> 0, count |-> 0,
   names |-> <<>>, majorNames |-> <<>>, minorNames |-> <<>>]

IndexOfKey(nodeMap, key) ==
  IF \E k \in 1..Len(nodeMap) : nodeMap[k].key = key
  THEN CHOOSE k \in 1..Len(nodeMap) : nodeMap[k].key = key
  ELSE 0

\* n.names.set(rawStreet, (n.names.get(rawStreet) || 0) + 1)
CountName(names, rawStreet) ==
  IF \E k \in 1..Len(names) : names[k][1] = rawStreet
  THEN [k \in 1..Len(names) |-> IF names[k][1] = rawStreet THEN <<rawStreet, names[k][2] + 1>> ELSE names[k]]
  ELSE Append(names, <<rawStreet, 1>>)

\* Set.prototype.add
SetAdd(set, x) == IF \E k \in 1..Len(set) : set[k] = x THEN set ELSE Append(set, x)

MajorValue == <<"Major">>
MinorValues == {<<"Minor">>, <<"Private">>, <<"Pedestrian">>}

\* The body of the endpoint loop for one finite endpoint <<lon, lat>>.
AddEndpoint(nodeMap, coord, rawStreet, streetBase, val) ==
  LET lon == coord[1]
      lat == coord[2]
      key == _roundKey(lat, lon)
      withKey == IF IndexOfKey(nodeMap, key) = 0 THEN Append(nodeMap, NewNode(key)) ELSE nodeMap
      k == IndexOfKey(withKey, key)
      n == withKey[k]
      updated == [n EXCEPT !.latSum = n.latSum + lat,
                           !.lonSum = n.lonSum + lon,
                           !.count = n.count + 1,
                           !.names = CountName(n.names, rawStreet),
                           !.majorNames = IF val = MajorValue THEN SetAdd(n.majorNames, streetBase) ELSE n.majorNames,
                           !.minorNames = IF val # MajorValue /\ val \in MinorValues
                                          THEN SetAdd(n.minorNames, streetBase) ELSE n.minorNames]
  IN IF ~(IsNum(lat) /\ IsNum(lon)) THEN nodeMap
     ELSE [withKey EXCEPT ![k] = updated]

\* The body of the feature loop.
AddSegment(nodeMap, f, roadField) ==
  LET p == f.properties
      g == f.geometry
      rawStreet == rawStreetOf(p)
      streetBase == baseName(rawStreet)
      val == trim(Prop(p, roadField))
      first == g.coordinates[1]
      last == g.coordinates[Len(g.coordinates)]
  IN IF ~f.hasGeometry \/ g.type # "LineString" \/ ~g.defined \/ Len(g.coordinates) < 2 THEN nodeMap
     ELSE IF rawStreet = <<>> THEN nodeMap
     ELSE IF streetBase = <<>> THEN nodeMap
     ELSE AddEndpoint(AddEndpoint(nodeMap, <<LonOf(first), LatOf(first)>>, rawStreet, streetBase, val),
                      <<LonOf(last), LatOf(last)>>, rawStreet, streetBase, val)

RECURSIVE Accumulate(_, _, _, _)
Accumulate(fs, i, roadField, nodeMap) ==
  IF i > Len(fs) THEN nodeMap
  ELSE Accumulate(fs, i + 1, roadField, AddSegment(nodeMap, fs[i], roadField))

\* A filter on the endpoint count alone.
IsIntersectionByCount(n) == n.count >= 2

\* keep only "true" intersections: if (n.count < 2 || n.names.size < 2) continue;
IsIntersection(n) == ~(n.count < 2 \/ Len(n.names) < 2)

\* The emitted node: the averaged coordinate (to the nearest step), the name
\* counts and the two tag lists.  key is kept beside it to name the Map entry
\* the node came from; the source's object does not carry it.
Emit(n) ==
  [key |-> n.key, lat |-> RoundDiv(n.latSum, n.count), lon |-> RoundDiv(n.lonSum, n.count),
   names |-> n.names, majorNames |-> n.majorNames, minorNames |-> n.minorNames]

buildHamiltonIntersections(fs, roadField) ==
  LET nodeMap == Accumulate(fs, 1, roadField, <<>>)
      kept == SelectSeq(nodeMap, IsIntersection)
  IN [k \in 1..Len(kept) |-> Emit(kept[k])]

\* ------------------------------------------------------- nearestHamiltonNode

\* The loop of nearestHamiltonNode: best is the node's index, 0 for null.
RECURSIVE NearestFrom(_, _, _, _, _, _)
NearestFrom(userLat, userLon, ns, i, best, bestDist) ==
  IF i > Len(ns) THEN [best |-> best, distance |-> bestDist]
  ELSE LET d == haversineDistance(userLat, userLon, ns[i].lat, ns[i].lon)
       IN IF Less(d, bestDist) THEN NearestFrom(userLat, userLon, ns, i + 1, i, d)
          ELSE NearestFrom(userLat, userLon, ns, i + 1, best, bestDist)

nearestHamiltonNode(userLat, userLon, ns) == NearestFrom(userLat, userLon, ns, 1, 0, Infinity)

\* ---------------------------------------------- formatIntersectionNameFromNode

\* [...node.names].sort((a, b) => b[1] - a[1]): a stable sort, the larger
\* count first.
RECURSIVE InsertByCount(_, _)
InsertByCount(sorted, e) ==
  IF sorted = <<>> THEN <<e>>
  ELSE IF Head(sorted)[2] >= e[2] THEN <<Head(sorted)>> \o InsertByCount(Tail(sorted), e)
       ELSE <<e>> \o sorted

\* The names left in the order of the Map, not sorted by count.
Unsorted(names) == names

RECURSIVE SortByCount(_)
SortByCount(names) ==
  IF names = <<>> THEN <<>>
  ELSE InsertByCount(SortByCount(SubSeq(names, 1, Len(names) - 1)), names[Len(names)])

InSeq(set, x) == \E k \in 1..Len(set) : set[k] = x

\* The classification loop: [majors, minors, others, seenBase].
RECURSIVE Classify(_, _, _, _)
Classify(sorted, i, node, acc) ==
  IF i > Len(sorted) THEN acc
  ELSE LET raw == sorted[i][1]
           bn == baseName(raw)
       IN IF bn = <<>> \/ InSeq(acc.seenBase, bn) THEN Classify(sorted, i + 1, node, acc)
          ELSE LET seen == [acc EXCEPT !.seenBase = Append(acc.seenBase, bn)]
               IN IF InSeq(node.majorNames, bn)
                  THEN Classify(sorted, i + 1, node, [seen EXCEPT !.majors = Append(acc.majors, raw)])
                  ELSE IF InSeq(node.minorNames, bn)
                  THEN Classify(sorted, i + 1, node, [seen EXCEPT !.minors = Append(acc.minors, raw)])
                  ELSE Classify(sorted, i + 1, node, [seen EXCEPT !.others = Append(acc.others, raw)])

\* `${toTitle(a)} & ${toTitle(b)}`
Joined(a, b) == toTitle(a) \o <<" ", "&", " ">> \o toTitle(b)

UnnamedIntersection == <<"Unnamed", " ", "Intersection">>

PickNameMinorFirst(majors, minors, others) ==
  IF Len(majors) >= 2 THEN Joined(majors[1], majors[2])
  ELSE IF Len(majors) >= 1 /\ Len(minors) >= 1 THEN Joined(minors[1], majors[1])
  ELSE IF Len(majors) >= 1 /\ Len(others) >= 1 THEN Joined(majors[1], others[1])
  ELSE IF Len(majors) = 1 THEN toTitle(majors[1])
  ELSE IF Len(others) >= 2 THEN Joined(others[1], others[2])
  ELSE IF Len(others) = 1 THEN toTitle(others[1])
  ELSE UnnamedIntersection

\* The return statements, in their order.
PickName(majors, minors, others) ==
  IF Len(majors) >= 2 THEN Joined(majors[1], majors[2])
  ELSE IF Len(majors) >= 1 /\ Len(minors) >= 1 THEN Joined(majors[1], minors[1])
  ELSE IF Len(majors) >= 1 /\ Len(others) >= 1 THEN Joined(majors[1], others[1])
  ELSE IF Len(majors) = 1 THEN toTitle(majors[1])
  ELSE IF Len(others) >= 2 THEN Joined(others[1], others[2])
  ELSE IF Len(others) = 1 THEN toTitle(others[1])
  ELSE UnnamedIntersection

formatIntersectionNameFromNode(node) ==
  LET sorted == SortByCount(node.names)
      c == Classify(sorted, 1, node, [majors |-> <<>>, minors |-> <<>>, others |-> <<>>, seenBase |-> <<>>])
  IN PickName(c.majors, c.minors, c.others)

\* ------------------------------------------------------ the scan specification

\* The longest feature collection of the model.
MaxFeatures == 3

Str(w) == <<w>>
RoadType(v) == [ROAD_TYPE |-> Str(v)]
NoProps == [NOTE |-> <<>>]

\* The features a collection is drawn from: the six geometry kinds, a null
\* geometry and an empty LineString.  Distances from the query (0, 0): 504 dm
\* for features 1, 2, 5, for the first coordinate of 4 and for the second part
\* of 6 (ties), 728 and 1680 dm for the first vertex of 7 and 8, 5040 dm for
\* 3.  From the query (-4, 3) the Minor feature 4 (326 dm) is nearer than the
\* Major feature 2 (747 dm).
FeatureChoices ==
  << Feature(Geometry("Point", <<9, 0>>),
             [ROAD_TYPE |-> Str("Minor"),
              STREET_NAME_COMPLETE |-> <<"King", " ", "St", " ", "/", " ", "James", " ", "St">>]),
     Feature(Geometry("Point", <<0, 9>>),
             [ROAD_TYPE |-> Str("MAJOR"), NAME |-> <<"Grand", " ", "Ave">>]),
     Feature(Geometry("Point", <<0, 90>>),
             [ROAD_TYPE |-> Str("Major"), STREET_1 |-> <<"MAIN", " ", "ST">>, STREET_2 |-> <<"elm", " ", "st">>]),
     Feature(Geometry("MultiPoint", << <<0, 0 - 9>>, <<0, 0>> >>), RoadType("Minor")),
     Feature(Geometry("LineString", << <<0 - 9, 0 - 9>>, <<0 - 9, 9>> >>), NoProps),
     Feature(Geometry("MultiLineString",
                      << << <<20, 0>>, <<20, 10>> >>, << <<0, 0 - 9>>, <<5, 0 - 9>> >> >>), NoProps),
     Feature(Geometry("Polygon", << << <<12, 5>>, <<0, 1>>, <<1, 0>>, <<12, 5>> >> >>), NoProps),
     Feature(Geometry("MultiPolygon", << << << <<0, 30>>, <<1, 1>>, <<2, 2>>, <<0, 30>> >> >> >>), NoProps),
     NullGeometry(NoProps),
     Feature(Geometry("LineString", <<>>), NoProps) >>

\* The query coordinates <<lat, lon>> and the radii (decimetres) of the calls:
\* 504 is exactly the distance of the nearest tied features from (0, 0).
Queries == {<<0, 0>>, <<0 - 4, 3>>}
Radii == {100, 504, 5000}

NoCall == [op |-> "none", userLat |-> 0, userLon |-> 0, maxDist |-> 0,
           preferMajorField |-> "", preferMajorValue |-> <<>>, nameFields |-> <<>>]
Call(op, q, r, field, value, nameFields) ==
  [op |-> op, userLat |-> q[1], userLon |-> q[2], maxDist |-> r,
   preferMajorField |-> field, preferMajorValue |-> value, nameFields |-> nameFields]

\* The property names a feature of the model may carry; XSTREETS is a field
\* named by the caller.  A property that is not set reads as the empty string.
PropKeys == {"STREET_NAME_COMPLETE", "STREET_1", "STREET_2", "ROAD_NAME_1",
             "XSTREETS", "NAME"}
Unset == [k \in PropKeys |-> <<>>]
\* No display name computed yet.
NotCalled == <<"(none)">>

\* No position update handled yet; no reverse-geocoding request issued.
NoUpdate == [caller |-> "none", userLat |-> 0, userLon |-> 0]
NoRequest == [state |-> "idle", lat |-> 0, lon |-> 0, answer |-> <<>>]

\* No nearest point computed yet.
NoPoint == [kind |-> "none", lat |-> 0, lon |-> 0]

ScanIdle == features = <<>> /\ call = NoCall /\ result = NoResult
GraphIdle == segments = <<>> /\ built = FALSE /\ nodes = <<>> /\ picked = 0 /\ label = <<>>
NameIdle == name = <<>> /\ applied = FALSE /\ base = <<>>
PropIdle == props = Unset /\ candidates = <<>> /\ displayName = NotCalled
FlowIdle ==
  /\ update = NoUpdate /\ outcome = "none" /\ intersectionCoords = <<>>
  /\ geocode = NoRequest /\ locationName = <<>>
LineIdle == polyline = <<>> /\ standing = <<0, 0>> /\ nearestPoint = NoPoint

\* No circle has been drawn; circleAnimationId is null (0).
NoCircle == [onMap |-> FALSE, center |-> <<>>, radius |-> 0]
CircleIdle == circle = NoCircle /\ growing = TRUE /\ circleAnimationId = 0 /\ ticks = 0

\* Positions in % of viewport height.
OPEN_Y == 5
CLOSED_Y == 69

\* The drawer as the variable declarations of initPullupGestures leave it,
\* before its closing setY(getCurrentY(), true); no inline transform (<<>>).
DrawerIdle ==
  /\ currentTranslateY = CLOSED_Y /\ transform = <<>> /\ openClass = FALSE /\ draggingClass = FALSE
  /\ isDragging = FALSE /\ startY = 0 /\ startTranslateY = CLOSED_Y /\ userSelect = ""
  /\ settled = FALSE

\* let userMarker = null; let geoData = null; nothing shown yet.
NoData == [loaded |-> FALSE, features |-> <<>>]
NoMarker == [set |-> FALSE, lat |-> 0, lon |-> 0]
NoDisplay == [locationName |-> <<>>, nameOf |-> 0, output |-> "", outputOf |-> 0]
LiveIdle ==
  /\ fetchState = "pending" /\ geoData = NoData /\ timer = FALSE /\ positionRequests = 0
  /\ updates = <<>> /\ display = NoDisplay /\ userMarker = NoMarker /\ markers = 0

OtherIdle == LineIdle /\ CircleIdle /\ DrawerIdle /\ LiveIdle

ScanInit == ScanIdle /\ GraphIdle /\ NameIdle /\ PropIdle /\ FlowIdle /\ OtherIdle

\* The collection is loaded feature by feature before the resolver is called.
LoadFeature ==
  /\ call.op = "none"
  /\ Len(features) < MaxFeatures
  /\ \E k \in 1..Len(FeatureChoices) : features' = Append(features, FeatureChoices[k])
  /\ UNCHANGED <<call, result, graphVars, nameVars, propVars, flowVars, otherVars>>

CallFindNearestIntersection ==
  /\ call.op = "none"
  /\ \E q \in Queries, r \in Radii :
       /\ call' = Call("findNearestIntersection", q, r, "", <<>>, <<>>)
       /\ result' = findNearestIntersection(q[1], q[2], features, r)
  /\ UNCHANGED <<features, graphVars, nameVars, propVars, flowVars, otherVars>>

CallFindNearestIntersectionFirstCoord ==
  /\ call.op = "none"
  /\ \E q \in Queries, r \in Radii :
       /\ call' = Call("findNearestIntersectionFirstCoord", q, r, "", <<>>, <<>>)
       /\ result' = findNearestIntersectionFirstCoord(q[1], q[2], features, r)
  /\ UNCHANGED <<features, graphVars, nameVars, propVars, flowVars, otherVars>>

\* The options of the two documented uses: no preference with the name
\* fields of the main flow, or the preference ROAD_TYPE = "Major" with the
\* name field STREET_NAME_COMPLETE.
CallFindNearestIntersectionSmart ==
  /\ call.op = "none"
  /\ \E q \in Queries, r \in Radii, field \in {"", "ROAD_TYPE"} :
       LET value == IF field = "" THEN <<>> ELSE Str("Major")
           nameFields == IF field = "" THEN <<"INTERSECTION_DESC", "NAME", "LABEL">>
                                       ELSE <<"STREET_NAME_COMPLETE">>
       IN /\ call' = Call("findNearestIntersectionSmart", q, r, field, value, nameFields)
          /\ result' = findNearestIntersectionSmart(q[1], q[2], features, r, field, value, nameFields)
  /\ UNCHANGED <<features, graphVars, nameVars, propVars, flowVars, otherVars>>

ScanNext ==
  \/ LoadFeature
  \/ CallFindNearestIntersection
  \/ CallFindNearestIntersectionFirstCoord
  \/ CallFindNearestIntersectionSmart

Spec == ScanInit /\ [][ScanNext]_vars

\* ------------------------------------------------ the claims of the scans

\* The nearest point of a feature as the component design defines it: the
\* coordinate of a Point, the first coordinate of a MultiPoint, the nearest
\* point of a LineString, the nearest points of the parts of a
\* MultiLineString, the first vertex of the first ring of a polygon.
WellFormed(f) ==
  LET c == f.geometry.coordinates
      t == f.geometry.type
  IN /\ f.hasGeometry
     /\ f.geometry.defined
     /\ Len(c) >= 1
     /\ t \in {"Point", "MultiPoint", "LineString", "MultiLineString", "Polygon", "MultiPolygon"}
     /\ t = "Point" => Len(c) >= 2
     /\ t = "MultiLineString" => \A k \in 1..Len(c) : Len(c[k]) >= 1
     /\ t = "Polygon" => Len(c[1]) >= 1
     /\ t = "MultiPolygon" => Len(c[1]) >= 1 /\ Len(c[1][1]) >= 1

PointLike(f) == WellFormed(f) /\ f.geometry.type \in {"Point", "MultiPoint"}

At(coord) == [lat |-> coord[2], lon |-> coord[1]]
OnLine(q, line) ==
  LET c == nearestPointOnLineString(q[1], q[2], line) IN [lat |-> c.lat, lon |-> c.lon]

NearestPoints(q, f) ==
  LET c == f.geometry.coordinates
      t == f.geometry.type
  IN CASE t = "Point" -> {At(c)}
       [] t = "MultiPoint" -> {At(c[1])}
       [] t = "LineString" -> {OnLine(q, c)}
       [] t = "MultiLineString" -> {OnLine(q, c[k]) : k \in 1..Len(c)}
       [] t = "Polygon" -> {At(c[1][1])}
       [] t = "MultiPolygon" -> {At(c[1][1][1])}

SetMin(S) == CHOOSE x \in S : \A y \in S : x <= y
DistTo(q, pt) == haversineDistance(q[1], q[2], pt.lat, pt.lon)
FeatureDistance(q, f) == SetMin({DistTo(q, pt) : pt \in NearestPoints(q, f)})

Query == <<call.userLat, call.userLon>>
Measured == {i \in 1..Len(features) : WellFormed(features[i])}
Points == {i \in 1..Len(features) : PointLike(features[i])}
Dist(i) == FeatureDistance(Query, features[i])
MinDistOver(I) == SetMin({Dist(i) : i \in I})

\* C1: for a list of well-formed features findNearestIntersection returns the
\* feature whose nearest point is at the minimum distance over the whole list,
\* with that point and distance, when the minimum is <= maxDist (boundary
\* included), and null otherwise, also for the empty list.
C1_NearestWithinRadius ==
  (call.op = "findNearestIntersection" /\ Measured = 1..Len(features)) =>
    IF features # <<>> /\ MinDistOver(Measured) <= call.maxDist
    THEN /\ result.kind = "match"
         /\ result.distance = MinDistOver(Measured)
         /\ Dist(result.feature) = MinDistOver(Measured)
         /\ [lat |-> result.lat, lon |-> result.lon] \in NearestPoints(Query, features[result.feature])
         /\ DistTo(Query, [lat |-> result.lat, lon |-> result.lon]) = result.distance
    ELSE result.kind = "null"

\* The part of C1 the code keeps: the same statement for lists without a
\* MultiPoint feature.
C1_WithoutMultiPoint ==
  (\A i \in 1..Len(features) : features[i].geometry.type # "MultiPoint") => C1_NearestWithinRadius

\* C2: with a preferred field/value findNearestIntersectionSmart returns the
\* nearest preferred feature whenever its distance is <= maxDistMeters, even
\* if another feature is nearer; otherwise the nearest point feature of any
\* class when that one is <= maxDistMeters; otherwise null.
Preferred(f) ==
  /\ call.preferMajorField # ""
  /\ toLowerCase(Prop(f.properties, call.preferMajorField)) = toLowerCase(call.preferMajorValue)
Majors == {i \in Points : Preferred(features[i])}

C2_PreferredThenAny ==
  call.op = "findNearestIntersectionSmart" =>
    IF Majors # {} /\ MinDistOver(Majors) <= call.maxDist
    THEN /\ result.kind = "match"
         /\ result.feature \in Majors
         /\ result.major
         /\ result.distance = MinDistOver(Majors)
         /\ Dist(result.feature) = MinDistOver(Majors)
    ELSE IF Points # {} /\ MinDistOver(Points) <= call.maxDist
    THEN /\ result.kind = "match"
         /\ result.feature \in Points
         /\ result.distance = MinDistOver(Points)
         /\ Dist(result.feature) = MinDistOver(Points)
    ELSE result.kind = "null"

\* C2's case: a preferred feature is returned although a feature that is not
\* preferred is strictly nearer.
C2_Witness ==
  /\ call.op = "findNearestIntersectionSmart"
  /\ result.kind = "match"
  /\ result.major
  /\ \E i \in Points \ Majors : Dist(i) < result.distance

\* C3: a feature with missing or malformed geometry is skipped without an
\* error: the scan's result is the result over the list without that feature.
RemoveAt(s, i) == [k \in 1..(Len(s) - 1) |-> IF k < i THEN s[k] ELSE s[k + 1]]
Rerun(fs) ==
  CASE call.op = "findNearestIntersection" ->
         findNearestIntersection(call.userLat, call.userLon, fs, call.maxDist)
    [] call.op = "findNearestIntersectionFirstCoord" ->
         findNearestIntersectionFirstCoord(call.userLat, call.userLon, fs, call.maxDist)
    [] call.op = "findNearestIntersectionSmart" ->
         findNearestIntersectionSmart(call.userLat, call.userLon, fs, call.maxDist,
                                      call.preferMajorField, call.preferMajorValue, call.nameFields)
Shifted(r, i) == IF r.kind = "match" /\ r.feature >= i THEN [r EXCEPT !.feature = r.feature + 1] ELSE r
Malformed(f) == ~f.hasGeometry \/ ~f.geometry.defined \/ Len(f.geometry.coordinates) = 0

C3_MalformedSkipped ==
  call.op # "none" =>
    \A i \in 1..Len(features) :
      Malformed(features[i]) =>
        /\ result.kind # "throw"
        /\ result = Shifted(Rerun(RemoveAt(features, i)), i)

\* C4: a Point or MultiPoint feature (its first coordinate) that is the
\* nearest feature of the list and within the radius is returned by the scan,
\* with the great-circle distance to that coordinate.
C4_PointFeatureReturned ==
  call.op \in {"findNearestIntersection", "findNearestIntersectionFirstCoord"} =>
    \A i \in Points :
      (/\ Dist(i) <= call.maxDist
       /\ \A j \in Measured \ {i} : Dist(j) > Dist(i)
       /\ Measured = 1..Len(features))
      => /\ result.kind = "match"
         /\ result.feature = i
         /\ result.distance = Dist(i)

\* C5: of the features at exactly the minimum distance the scan returns the
\* one that comes first in the input.  The features compared are those of
\* the class the scan returns: the preferred ones for a preferred match of
\* findNearestIntersectionSmart, its point features otherwise, and every
\* well-formed feature for findNearestIntersection.
Scope ==
  IF call.op = "findNearestIntersectionSmart"
  THEN IF result.major THEN Majors ELSE Points
  ELSE Measured
Tied == {i \in Scope : Dist(i) = MinDistOver(Scope)}

C5_FirstOfTiedReturned ==
  (/\ call.op \in {"findNearestIntersection", "findNearestIntersectionSmart"}
   /\ result.kind = "match"
   /\ result.feature \in Tied)
  => \A j \in Tied : result.feature <= j

\* A MultiLineString feature with coordinates, and its parts as LineString
\* features of the same identity (origin is the index of the feature they
\* come from).
IsMultiLineString(f) ==
  f.hasGeometry /\ f.geometry.type = "MultiLineString" /\ f.geometry.defined
AsParts(f, i) ==
  IF IsMultiLineString(f)
  THEN [k \in 1..Len(f.geometry.coordinates) |->
          [feature |-> Feature(Geometry("LineString", f.geometry.coordinates[k]), f.properties),
           origin |-> i]]
  ELSE <<[feature |-> f, origin |-> i]>>
RECURSIVE Expanded(_, _)
Expanded(fs, i) == IF i > Len(fs) THEN <<>> ELSE AsParts(fs[i], i) \o Expanded(fs, i + 1)

\* C20: for a MultiLineString feature, findNearestIntersection gives what
\* nearestPointOnLineString applied to every component line and the overall
\* minimum give: with each MultiLineString replaced by its parts as
\* consecutive LineString features of the same identity, the call returns
\* the same matched point, distance and feature (or null, or the TypeError).
C20_MultiLineStringAsParts ==
  call.op = "findNearestIntersection" =>
    LET ex == Expanded(features, 1)
        r == findNearestIntersection(call.userLat, call.userLon,
                                     [k \in 1..Len(ex) |-> ex[k].feature], call.maxDist)
    IN result = IF r.kind = "match" THEN [r EXCEPT !.feature = ex[r.feature].origin] ELSE r

\* The match is a point of a MultiLineString's second part, nearer than its
\* first part, in a collection with other features.
C20_Witness ==
  /\ call.op = "findNearestIntersection"
  /\ result.kind = "match"
  /\ Len(features) >= 2
  /\ IsMultiLineString(features[result.feature])
  /\ Len(features[result.feature].geometry.coordinates) >= 2
  /\ LET parts == features[result.feature].geometry.coordinates
         c1 == nearestPointOnLineString(call.userLat, call.userLon, parts[1])
         c2 == nearestPointOnLineString(call.userLat, call.userLon, parts[2])
     IN /\ result.lat = c2.lat /\ result.lon = c2.lon
        /\ haversineDistance(call.userLat, call.userLon, c1.lat, c1.lon) > result.distance

\* ------------------------------------------------- the road-graph specification

\* The longest list of road segments of the model.
MaxSegments == 3

MainSt == <<"Main", " ", "St">>
MainStreet == <<"Main", " ", "Street">>
ElmSt == <<"Elm", " ", "St">>
KingStW == <<"King", " ", "St", " ", "W">>
JamesSt == <<"James", " ", "St">>
North == <<"North">>
GrandAve == <<"Grand", " ", "Ave">>

Segment(rawStreet, roadType, coordinates) ==
  Feature(Geometry("LineString", coordinates), [STREET_NAME_COMPLETE |-> rawStreet, ROAD_TYPE |-> roadType])

\* The segments a list is drawn from.  Most meet in the snap cell of (0, 0):
\* 1, 2, 4, 6, 7, 9 end at (0, 0) itself, 3 ends one step away in the same
\* cell, 5 ends two steps away in the next cell, 8 has both ends in the cell.
\* 10 is not a LineString and 11 has no name.  12 joins the far ends of 1
\* and 2 and is tagged minor; 13 ends at (0, 0) and has no tag.
SegmentChoices ==
  << Segment(MainSt, <<"Major">>, << <<0, 0>>, <<0, 40>> >>),
     Segment(ElmSt, <<"Minor">>, << <<0, 0>>, <<40, 0>> >>),
     Segment(KingStW, <<"Major">>, << <<0 - 1, 1>>, <<0 - 40, 0>> >>),
     Segment(MainStreet, <<"Major">>, << <<0, 0>>, <<0, 0 - 40>> >>),
     Segment(JamesSt, <<"Collector">>, << <<2, 0>>, <<40, 40>> >>),
     Segment(North, <<"Major">>, << <<0, 0>>, <<0 - 40, 0 - 40>> >>),
     Segment(ElmSt, <<"Minor">>, << <<0, 0>>, <<80, 0>> >>),
     Segment(ElmSt, <<"Minor">>, << <<0, 0>>, <<10, 10>>, <<1, 0>> >>),
     Segment(JamesSt, <<>>, << <<0, 0>>, <<40, 0 - 40>> >>),
     Feature(Geometry("Point", <<0, 0>>), [STREET_NAME_COMPLETE |-> JamesSt, ROAD_TYPE |-> <<"Major">>]),
     Segment(<<>>, <<"Major">>, << <<0, 0>>, <<0 - 80, 0>> >>),
     Segment(JamesSt, <<"Private">>, << <<40, 0>>, <<0, 40>> >>),
     Segment(GrandAve, <<"Collector">>, << <<0, 0>>, <<0 - 40, 40>> >>) >>

\* The positions <<lat, lon>> of the visitor.
Positions == {<<0, 0>>, <<0, 40>>}

GraphInit == ScanIdle /\ GraphIdle /\ NameIdle /\ PropIdle /\ FlowIdle /\ OtherIdle

\* The GeoJSON of the city is loaded segment by segment.
LoadSegment ==
  /\ ~built
  /\ Len(segments) < MaxSegments
  /\ \E k \in 1..Len(SegmentChoices) : segments' = Append(segments, SegmentChoices[k])
  /\ UNCHANGED <<built, nodes, picked, label, scanVars, nameVars, propVars, flowVars, otherVars>>

\* const nodes = buildHamiltonIntersections(data.features, {roadField: 'ROAD_TYPE', ...})
BuildNodes ==
  /\ ~built
  /\ built' = TRUE
  /\ nodes' = buildHamiltonIntersections(segments, "ROAD_TYPE")
  /\ UNCHANGED <<segments, picked, label, scanVars, nameVars, propVars, flowVars, otherVars>>

\* const nearest = nearestHamiltonNode(userLat, userLon, nodes);
\* if (nearest) intersectionName = formatIntersectionNameFromNode(nearest)
FormatNode ==
  /\ built
  /\ picked = 0
  /\ \E q \in Positions :
       LET nearest == nearestHamiltonNode(q[1], q[2], nodes)
       IN /\ nearest.best # 0
          /\ picked' = nearest.best
          /\ label' = formatIntersectionNameFromNode(nodes[nearest.best])
  /\ UNCHANGED <<segments, built, nodes, scanVars, nameVars, propVars, flowVars, otherVars>>

GraphNext == LoadSegment \/ BuildNodes \/ FormatNode

GraphSpec == GraphInit /\ [][GraphNext]_vars

\* ------------------------------------------------ the claims of the road graph

\* The snap cell of a coordinate, by its interval: cell k holds the steps v
\* with k - 1/2 <= v / PrecSteps < k + 1/2.
CellTable ==
  [v \in (0 - 100)..100 |->
     CHOOSE k \in (0 - 100)..100 : 2 * PrecSteps * k - PrecSteps <= 2 * v /\ 2 * v < 2 * PrecSteps * k + PrecSteps]
CellOf(v) == CellTable[v]
CellOfCoord(coord) == <<CellOf(coord[2]), CellOf(coord[1])>>

\* A segment the construction reads: a LineString of at least two
\* coordinates with a street name.
RawName(f) == rawStreetOf(f.properties)
Named(f) ==
  /\ f.hasGeometry /\ f.geometry.type = "LineString" /\ f.geometry.defined
  /\ Len(f.geometry.coordinates) >= 2
  /\ RawName(f) # <<>>
Ends(f) == {f.geometry.coordinates[1], f.geometry.coordinates[Len(f.geometry.coordinates)]}

\* A name made of direction words (and spaces) only.
OnlyDirections(raw) ==
  \A k \in 1..Len(raw) : LowerPiece(raw[k]) \in {"north", "south", "east", "west", " "}
Counted(f) == Named(f) /\ ~OnlyDirections(RawName(f))

NamesOf(node) == {node.names[k][1] : k \in 1..Len(node.names)}
NodesAt(cell) == {k \in 1..Len(nodes) : nodes[k].key = cell}

\* C6: every emitted node aggregates endpoints of at least two distinct
\* segments and carries at least two distinct street names.
C6_NodesAreIntersections ==
  built =>
    \A k \in 1..Len(nodes) :
      /\ Cardinality({i \in 1..Len(segments) :
                        Named(segments[i]) /\ \E e \in Ends(segments[i]) : CellOfCoord(e) = nodes[k].key}) >= 2
      /\ Cardinality(NamesOf(nodes[k])) >= 2

C6_Witness == built /\ Len(nodes) >= 1 /\ Len(segments) = MaxSegments

\* The case of C7 and C8: segments i and j with different names, an end of
\* each in one cell, and their other ends in cells of their own.
FarApart(i, j, cell) ==
  LET others == {<<m, e>> \in ({i} \X Ends(segments[i])) \cup ({j} \X Ends(segments[j])) :
                   CellOfCoord(e) # cell}
  IN /\ Cardinality(others) = 2
     /\ \A x, y \in others : x # y => CellOfCoord(x[2]) # CellOfCoord(y[2])

OneNodeWithBoth(i, j, cell) ==
  /\ Len(nodes) = 1
  /\ nodes[1].key = cell
  /\ {RawName(segments[i]), RawName(segments[j])} \subseteq NamesOf(nodes[1])

NoSharedCell ==
  \A i, j \in 1..Len(segments) :
    \A a \in Ends(segments[i]), b \in Ends(segments[j]) :
      (i # j \/ a # b) => CellOfCoord(a) # CellOfCoord(b)

\* C7 as stated: two named segments with different names that share one
\* identical endpoint, their other endpoints far apart, give exactly one
\* node with both names; one segment, or segments without a common cell,
\* give no node.
C7_SharedEndpointAsStated ==
  built =>
    /\ (Len(segments) = 2 /\ Named(segments[1]) /\ Named(segments[2])
        /\ RawName(segments[1]) # RawName(segments[2]))
       => \A e \in Ends(segments[1]) \cap Ends(segments[2]) :
            FarApart(1, 2, CellOfCoord(e)) => OneNodeWithBoth(1, 2, CellOfCoord(e))
    /\ Len(segments) = 1 => nodes = <<>>
    /\ ((\A i \in 1..Len(segments) : Named(segments[i])) /\ NoSharedCell) => nodes = <<>>

\* C7, amended: the same for segments whose names are not made of direction
\* words only.
C7_SharedEndpoint ==
  built =>
    /\ (Len(segments) = 2 /\ Counted(segments[1]) /\ Counted(segments[2])
        /\ RawName(segments[1]) # RawName(segments[2]))
       => \A e \in Ends(segments[1]) \cap Ends(segments[2]) :
            FarApart(1, 2, CellOfCoord(e)) => OneNodeWithBoth(1, 2, CellOfCoord(e))
    /\ Len(segments) = 1 => nodes = <<>>
    /\ ((\A i \in 1..Len(segments) : Named(segments[i])) /\ NoSharedCell) => nodes = <<>>

C7_Witness ==
  /\ built /\ Len(segments) = 2 /\ Len(nodes) = 1
  /\ Counted(segments[1]) /\ Counted(segments[2])
  /\ RawName(segments[1]) # RawName(segments[2])
  /\ Ends(segments[1]) \cap Ends(segments[2]) # {}

\* The distance of two coordinates is below the snap precision in latitude
\* and in longitude.
Abs(x) == IF x < 0 THEN 0 - x ELSE x
WithinTolerance(a, b) == Abs(a[1] - b[1]) < PrecSteps /\ Abs(a[2] - b[2]) < PrecSteps

\* C8 as stated: two endpoints with different street names within snap
\* tolerance of each other are merged into exactly one node with both names.
C8_WithinToleranceAsStated ==
  built =>
    \A i, j \in 1..Len(segments) :
      (Counted(segments[i]) /\ Counted(segments[j]) /\ RawName(segments[i]) # RawName(segments[j])) =>
        \A a \in Ends(segments[i]), b \in Ends(segments[j]) :
          WithinTolerance(a, b) =>
            \E k \in 1..Len(nodes) :
              /\ nodes[k].key = CellOfCoord(a)
              /\ nodes[k].key = CellOfCoord(b)
              /\ {RawName(segments[i]), RawName(segments[j])} \subseteq NamesOf(nodes[k])

\* C8, amended: two endpoints with different street names that round to the
\* same snap cell, identical or not, are merged into exactly one node with
\* both names.
C8_SameCellMerged ==
  built =>
    \A i, j \in 1..Len(segments) :
      (Counted(segments[i]) /\ Counted(segments[j]) /\ RawName(segments[i]) # RawName(segments[j])) =>
        \A a \in Ends(segments[i]), b \in Ends(segments[j]) :
          CellOfCoord(a) = CellOfCoord(b) =>
            /\ Cardinality(NodesAt(CellOfCoord(a))) = 1
            /\ \A k \in NodesAt(CellOfCoord(a)) :
                 {RawName(segments[i]), RawName(segments[j])} \subseteq NamesOf(nodes[k])

\* C8's case: the merged endpoints are not identical.
C8_Witness ==
  /\ built /\ Len(nodes) = 1
  /\ \E i, j \in 1..Len(segments) :
       /\ Counted(segments[i]) /\ Counted(segments[j]) /\ RawName(segments[i]) # RawName(segments[j])
       /\ \E a \in Ends(segments[i]), b \in Ends(segments[j]) :
            a # b /\ CellOfCoord(a) = CellOfCoord(b) /\ nodes[1].key = CellOfCoord(a)
       /\ \A a \in Ends(segments[i]), b \in Ends(segments[j]) : a # b

\* The streets of the formatted node by class: a street is a base name; it is
\* major when the node tags the base name major, else minor when tagged
\* minor, else other.
Chosen == nodes[picked]
BaseOf(raw) == baseName(raw)
TaggedMajor(node, raw) == \E k \in 1..Len(node.majorNames) : node.majorNames[k] = BaseOf(raw)
TaggedMinor(node, raw) == \E k \in 1..Len(node.minorNames) : node.minorNames[k] = BaseOf(raw)
MajorRaws == {r \in NamesOf(Chosen) : TaggedMajor(Chosen, r)}
MinorRaws == {r \in NamesOf(Chosen) : ~TaggedMajor(Chosen, r) /\ TaggedMinor(Chosen, r)}
OtherRaws == {r \in NamesOf(Chosen) : ~TaggedMajor(Chosen, r) /\ ~TaggedMinor(Chosen, r)}
Streets(raws) == {BaseOf(r) : r \in raws}
Titled(raw) == [i \in 1..Len(raw) |-> UpperFirst(LowerPiece(raw[i]))]
Pair(a, b) == Titled(a) \o <<" ", "&", " ">> \o Titled(b)
CountOf(node, raw) == node.names[CHOOSE k \in 1..Len(node.names) : node.names[k][1] = raw][2]

\* C10: the formatted name follows the major-first priority: two or more
\* distinct major streets give "Major1 & Major2"; else one major and a minor
\* give "Major & Minor"; else one major and another street give
\* "Major & Other"; else exactly one major gives that name alone.
C10_MajorFirst ==
  picked # 0 =>
    /\ Cardinality(Streets(MajorRaws)) >= 2
       => \E a, b \in MajorRaws : BaseOf(a) # BaseOf(b) /\ label = Pair(a, b)
    /\ (Cardinality(Streets(MajorRaws)) = 1 /\ MinorRaws # {})
       => \E a \in MajorRaws, b \in MinorRaws : label = Pair(a, b)
    /\ (Cardinality(Streets(MajorRaws)) = 1 /\ MinorRaws = {} /\ OtherRaws # {})
       => \E a \in MajorRaws, b \in OtherRaws : label = Pair(a, b)
    /\ (Cardinality(Streets(MajorRaws)) = 1 /\ MinorRaws = {} /\ OtherRaws = {})
       => \E a \in MajorRaws : label = Titled(a)

\* C10's case: the major street is listed first although the minor street
\* occurs more often at the node and comes first in the alphabet.
C10_Witness ==
  /\ picked # 0
  /\ label = <<"Main", " ", "St", " ", "&", " ", "Elm", " ", "St">>
  /\ \E a \in MajorRaws, b \in MinorRaws :
       label = Pair(a, b) /\ CountOf(Chosen, b) > CountOf(Chosen, a)

\* C11: a node without a major street and with two distinct streets that are
\* not major (tagged minor or not tagged) is formatted "Other1 & Other2".
NonMajorRaws == MinorRaws \cup OtherRaws

C11_TwoNonMajorJoined ==
  (picked # 0 /\ MajorRaws = {} /\ Cardinality(Streets(NonMajorRaws)) = 2) =>
    \E a, b \in NonMajorRaws : BaseOf(a) # BaseOf(b) /\ label = Pair(a, b)

\* C12: "Unnamed Intersection" is returned only for a node without a usable
\* street name, and a node with exactly one street is given that name alone.
Usable == {r \in NamesOf(Chosen) : BaseOf(r) # <<>>}

C12_UnnamedOnlyWithoutNames ==
  picked # 0 =>
    /\ label = UnnamedIntersection => Usable = {}
    /\ Cardinality(Streets(Usable)) = 1 => \E a \in Usable : label = Titled(a)

\* The order within a class: the larger count first, equal counts in the
\* order the names were first seen at the node.
IndexIn(node, raw) == CHOOSE k \in 1..Len(node.names) : node.names[k][1] = raw
Before(a, b) ==
  \/ CountOf(Chosen, a) > CountOf(Chosen, b)
  \/ CountOf(Chosen, a) = CountOf(Chosen, b) /\ IndexIn(Chosen, a) < IndexIn(Chosen, b)
ClassOf(raw) ==
  IF TaggedMajor(Chosen, raw) THEN "major" ELSE IF TaggedMinor(Chosen, raw) THEN "minor" ELSE "other"
FirstOfClass(a, taken) ==
  \A r \in Usable \ {a} : (ClassOf(r) = ClassOf(a) /\ BaseOf(r) \notin taken) => Before(a, r)

\* C13: within a tier the street with the highest count is listed first, of
\* the spellings of one street only the most frequent is used, and equal
\* counts keep their first-seen order.
C13_HighestCountFirst ==
  (picked # 0 /\ label # UnnamedIntersection) =>
    \/ \E a \in Usable : label = Titled(a) /\ FirstOfClass(a, {})
    \/ \E a, b \in Usable :
         /\ label = Pair(a, b)
         /\ BaseOf(a) # BaseOf(b)
         /\ FirstOfClass(a, {})
         /\ FirstOfClass(b, {BaseOf(a)})

\* C13's case: the first-listed street was seen later at the node than the
\* second but occurs more often.
C13_Witness ==
  /\ picked # 0
  /\ \E a, b \in Usable :
       /\ label = Pair(a, b)
       /\ ClassOf(a) = ClassOf(b)
       /\ IndexIn(Chosen, a) > IndexIn(Chosen, b)
       /\ CountOf(Chosen, a) > CountOf(Chosen, b)

\* ------------------------------------------- the name-normalization specification

\* The longest street name, in pieces.
MaxNameLen == 5

\* The pieces a street name is typed from.
NamePieces == {"Main", "St", "Street", "N", "North", " ", "."}

NameInit == ScanIdle /\ GraphIdle /\ NameIdle /\ PropIdle /\ FlowIdle /\ OtherIdle

\* A street name is written piece by piece; two words are never adjacent
\* (they would be one word).
TypePiece ==
  /\ ~applied
  /\ Len(name) < MaxNameLen
  /\ \E p \in NamePieces :
       /\ (name # <<>> /\ IsWord(name[Len(name)])) => ~IsWord(p)
       /\ name' = Append(name, p)
  /\ UNCHANGED <<applied, base, scanVars, graphVars, propVars, flowVars, otherVars>>

\* const streetBase = baseName(rawStreet)
ApplyBaseName ==
  /\ ~applied
  /\ applied' = TRUE
  /\ base' = baseName(name)
  /\ UNCHANGED <<name, scanVars, graphVars, propVars, flowVars, otherVars>>

NameNext == TypePiece \/ ApplyBaseName

NameSpec == NameInit /\ [][NameNext]_vars

\* ------------------------------------------- the claims of the name normalization

\* The same name written out in full: each abbreviation replaced by its word.
WriteOut(p) ==
  CASE p = "St" -> "Street"
    [] p = "N" -> "North"
    [] OTHER -> p
WrittenOut(s) == [i \in 1..Len(s) |-> WriteOut(s[i])]

\* A name with an abbreviated street type followed by a directional suffix.
Abbreviated(s) ==
  /\ Len(s) >= 3
  /\ s[Len(s)] \in {"N", "North"}
  /\ s[Len(s) - 1] = " "
  /\ \E k \in 1..(Len(s) - 2) : s[k] = "St"

\* C9: baseName maps a street name written with an abbreviation and a
\* directional suffix, and the same name written out in full, to the same
\* base identity: baseName("Main St N") = baseName("Main Street North").
C9_SameBaseIdentity ==
  (applied /\ Abbreviated(name)) => base = baseName(WrittenOut(name))

\* -------------------------------------------- the display name of a feature

\* At most MaxProps properties of a feature are set.
MaxProps == 3

\* The values a name property may hold: only white space, a single street
\* with a doubled space, two streets joined by "/" or by the word "and", a
\* street whose name has the letters "and" inside a word, three streets.
PropValues ==
  { <<" ">>,
    <<"elm", " ", " ", "st">>,
    <<"King", " ", "St", " ", "/", " ", "James", " ", "St">>,
    <<"King", " ", "and", " ", "James">>,
    <<"Grand", " ", "Ave">>,
    <<"King", " ", "&", " ", "James", " ", "&", " ", "Elm">> }

\* The nameFields a caller passes: none, or its own field.
NameFieldChoices == {<<>>, <<"XSTREETS">>}

SetKeys == {k \in PropKeys : props[k] # <<>>}

PropInit == ScanIdle /\ GraphIdle /\ NameIdle /\ PropIdle /\ FlowIdle /\ OtherIdle

\* The dataset gives the feature one more property.
SetProperty ==
  /\ displayName = NotCalled
  /\ Cardinality(SetKeys) < MaxProps
  /\ \E k \in PropKeys \ SetKeys, v \in PropValues : props' = [props EXCEPT ![k] = v]
  /\ UNCHANGED <<candidates, displayName, scanVars, graphVars, nameVars, flowVars, otherVars>>

\* name: getIntersectionName(f, nameFields)
CallGetIntersectionName ==
  /\ displayName = NotCalled
  /\ \E nameFields \in NameFieldChoices :
       /\ candidates' = nameFields
       /\ displayName' = getIntersectionName([properties |-> props], nameFields)
  /\ UNCHANGED <<props, scanVars, graphVars, nameVars, flowVars, otherVars>>

PropNext == SetProperty \/ CallGetIntersectionName

PropSpec == PropInit /\ [][PropNext]_vars

\* ----------------------------------------------- the claims of the display name

Resolved == displayName # NotCalled

\* The paired schemas in the order of the contract.
PairOrder ==
  << <<"STREET_1", "STREET_2">>, <<"ROAD_NAME_1", "ROAD_NAME_2">>,
     <<"STREET_A", "STREET_B">>, <<"RD1", "RD2">> >>

\* What the i-th paired schema yields: both sides joined with " & ", the one
\* side that is not empty, or nothing.
PairYield(i) ==
  LET A == normalizeStreetName(Prop(props, PairOrder[i][1]))
      B == normalizeStreetName(Prop(props, PairOrder[i][2]))
  IN IF A # <<>> /\ B # <<>> THEN A \o <<" ", "&", " ">> \o B
     ELSE IF A # <<>> THEN A ELSE B

SingleOrder == candidates \o <<"INTERSECTION_DESC", "NAME", "LABEL", "DESC">>

FirstPair == CHOOSE i \in 1..Len(PairOrder) :
  PairYield(i) # <<>> /\ \A j \in 1..(i - 1) : PairYield(j) = <<>>
FirstSingle == CHOOSE k \in 1..Len(SingleOrder) :
  Prop(props, SingleOrder[k]) # <<>> /\ \A j \in 1..(k - 1) : Prop(props, SingleOrder[j]) = <<>>

\* C14: getIntersectionName resolves the display name in strict precedence:
\* STREET_NAME_COMPLETE if present; else the first paired schema, in the
\* order STREET_1/STREET_2, ROAD_NAME_1/ROAD_NAME_2, STREET_A/STREET_B,
\* RD1/RD2, that yields a name (both sides joined with " & " when both are
\* non-empty); else the first non-empty single field among the caller's
\* nameFields followed by INTERSECTION_DESC, NAME, LABEL, DESC; else
\* "Unnamed Intersection".  A later source is used only when every earlier
\* one yields nothing.
C14_StrictPrecedence ==
  Resolved =>
    IF Prop(props, "STREET_NAME_COMPLETE") # <<>>
    THEN displayName = NameOfField(Prop(props, "STREET_NAME_COMPLETE"))
    ELSE IF \E i \in 1..Len(PairOrder) : PairYield(i) # <<>>
    THEN displayName = PairYield(FirstPair)
    ELSE IF \E k \in 1..Len(SingleOrder) : Prop(props, SingleOrder[k]) # <<>>
    THEN displayName = NameOfField(Prop(props, SingleOrder[FirstSingle]))
    ELSE displayName = <<"Unnamed", " ", "Intersection">>

\* The name comes from the pair STREET_1/STREET_2, both sides joined, while
\* a single field of lower precedence holds a name too.
C14_Witness ==
  /\ Resolved
  /\ props["STREET_NAME_COMPLETE"] = <<>>
  /\ props["STREET_1"] = <<"elm", " ", " ", "st">>
  /\ props["STREET_2"] = <<"Grand", " ", "Ave">>
  /\ props["NAME"] = <<"King", " ", "and", " ", "James">>
  /\ displayName = <<"Elm", " ", "St", " ", "&", " ", "Grand", " ", "Ave">>

\* A value that is empty or only white space.
IsBlank(v) == trim(v) = <<>>
\* The feature with every blank property taken away.
WithoutBlanks == [k \in PropKeys |-> IF IsBlank(props[k]) THEN <<>> ELSE props[k]]

\* C15: a property whose value is empty, missing or only white space is
\* treated as absent: the display name is the one of the same feature
\* without that property, and it is never the empty string.
C15_BlankTreatedAsAbsent ==
  Resolved =>
    /\ displayName # <<>>
    /\ displayName = getIntersectionName([properties |-> WithoutBlanks], candidates)

\* The value the display name was taken from when it came from the combined
\* field or from a single field; <<>> when it came from a pair or from none.
SourceValue ==
  IF Prop(props, "STREET_NAME_COMPLETE") # <<>> THEN Prop(props, "STREET_NAME_COMPLETE")
  ELSE IF \E i \in 1..Len(PairOrder) : PairYield(i) # <<>> THEN <<>>
  ELSE IF \E k \in 1..Len(SingleOrder) : Prop(props, SingleOrder[k]) # <<>>
  THEN Prop(props, SingleOrder[FirstSingle])
  ELSE <<>>

\* The segments of a value cut at "/", "&" and the word "and" standing alone.
SegmentsOf(v) == SelectSeq(SplitFrom(v, <<>>, <<>>), NonEmpty)

\* C16: a name property is split into two streets only at "/", "&" or the
\* standalone word "and", and only when that yields exactly two non-empty
\* segments; any other value, a name with the letters "and" inside a word
\* included, is returned as one normalized name.
C16_SplitOnlyAtDelimiters ==
  (Resolved /\ SourceValue # <<>>) =>
    IF Len(SegmentsOf(SourceValue)) = 2
    THEN displayName = combineTwo(SegmentsOf(SourceValue)[1], SegmentsOf(SourceValue)[2])
    ELSE displayName = normalizeStreetName(SourceValue)

\* --------------------------------------------------- the callers of the resolver

\* One position update of each caller is followed to its end: the main flow
\* of the road-graph city and of the point-based cities (part_002), the main
\* flow of the MultiPoint-only script (part_000), and refreshLocation
\* (app.js and its copies).  The reverse-geocoding service answers every
\* request.

\* The collection a caller reads has at most FlowMaxData features.
FlowMaxData == 2

\* maxDistMeters: 1000 of the point-based main flow and the default
\* maxDist = 500 of findNearestIntersection, in decimetres.
SmartMaxDist == 10000
DefaultMaxDist == 5000

\* The features of the point-based datasets: 1 and 2 lie within 500 m of
\* (0, 0), with and without INTERSECTION_DESC; 3 lies 560 m away; 4 is a
\* Point; 5 lies 2.8 km away, 560 m from the northern position.
FlowFeatureChoices ==
  << Feature(Geometry("MultiPoint", << <<0, 0>> >>),
             [INTERSECTION_DESC |-> <<"King", " ", "St", " ", "/", " ", "James", " ", "St">>]),
     Feature(Geometry("MultiPoint", << <<3, 4>> >>), [NAME |-> <<"elm", " ", "st">>]),
     Feature(Geometry("LineString", << <<0, 100>>, <<0, 140>> >>), [NOTE |-> <<>>]),
     Feature(Geometry("Point", <<1, 1>>), [INTERSECTION_DESC |-> <<"Main", " ", "St">>]),
     Feature(Geometry("MultiPoint", << <<0, 500>> >>), [INTERSECTION_DESC |-> <<"Grand", " ", "Ave">>]) >>

Lists(choices) ==
  UNION {[1..n -> {choices[k] : k \in 1..Len(choices)}] : n \in 0..FlowMaxData}

\* The visitor stands at the crossing of the model's streets or 2.2 km north.
FlowPositions == {<<0, 0>>, <<400, 0>>}

\* data.results[0].formatted, or "Unknown Location".
GeocodeAnswers == {<<"12", " ", "king", " ", "St">>, <<"Unknown", " ", "Location">>}

Request(lat, lon) == [state |-> "pending", lat |-> lat, lon |-> lon, answer |-> <<>>]
Update(caller, q) == [caller |-> caller, userLat |-> q[1], userLon |-> q[2]]

\* A main flow that never asks the reverse-geocoding service.
NoFallback(coords, userLat, userLon) == NoRequest

\* if (!intersectionCoords) { ...; intersectionName = await reverseGeocode(userLat, userLon); }
Fallback(coords, userLat, userLon) ==
  IF coords = <<>> THEN Request(userLat, userLon) ELSE NoRequest

\* A refreshLocation that asks for the name of every matched feature.
AlwaysRequest(feature) ==
  Request(LatOf(feature.geometry.coordinates[1]), LonOf(feature.geometry.coordinates[1]))

\* let intersectionName = feature.properties.INTERSECTION_DESC;
\* if (!intersectionName) intersectionName = await reverseGeocode(coordinates[0][1], coordinates[0][0])
NameRequest(feature) ==
  IF Prop(feature.properties, "INTERSECTION_DESC") # <<>> THEN NoRequest
  ELSE Request(LatOf(feature.geometry.coordinates[1]), LonOf(feature.geometry.coordinates[1]))

Reported(r) == IF r.kind = "match" THEN "match" ELSE IF r.kind = "null" THEN "nomatch" ELSE "thrown"

FlowInit == ScanIdle /\ GraphIdle /\ NameIdle /\ PropIdle /\ FlowIdle /\ OtherIdle

\* The main flow of part_002 when the closest city is 'hamilton'.
MainFlowHamilton ==
  /\ update = NoUpdate
  /\ \E data \in Lists(SegmentChoices), q \in FlowPositions :
     \E ns \in {buildHamiltonIntersections(data, "ROAD_TYPE")} :
     \E nearest \in {nearestHamiltonNode(q[1], q[2], ns)} :
       LET found == nearest.best # 0
           coords == IF found THEN <<ns[nearest.best].lat, ns[nearest.best].lon>> ELSE <<>>
           intersectionName == IF found THEN formatIntersectionNameFromNode(ns[nearest.best]) ELSE <<>>
       IN /\ update' = Update("mainHamilton", q)
          /\ segments' = data
          /\ built' = TRUE
          /\ nodes' = ns
          /\ picked' = nearest.best
          /\ label' = intersectionName
          /\ outcome' = IF found THEN "match" ELSE "nomatch"
          /\ geocode' = Fallback(coords, q[1], q[2])
          /\ intersectionCoords' = IF found THEN coords ELSE q
          /\ locationName' = IF found THEN toTitle(intersectionName) ELSE locationName
  /\ UNCHANGED <<scanVars, nameVars, propVars, otherVars>>

\* The main flow of part_002 for the other cities.
MainFlowSmart ==
  /\ update = NoUpdate
  /\ \E data \in Lists(FlowFeatureChoices), q \in FlowPositions :
     \E nameFields \in {<<"INTERSECTION_DESC", "NAME", "LABEL">>} :
     \E r \in {findNearestIntersectionSmart(q[1], q[2], data, SmartMaxDist, "", <<>>, nameFields)} :
       LET found == r.kind = "match"
           coords == IF found THEN <<r.lat, r.lon>> ELSE <<>>
       IN /\ update' = Update("mainSmart", q)
          /\ features' = data
          /\ call' = Call("findNearestIntersectionSmart", q, SmartMaxDist, "", <<>>, nameFields)
          /\ result' = r
          /\ outcome' = Reported(r)
          /\ geocode' = Fallback(coords, q[1], q[2])
          /\ intersectionCoords' = IF found THEN coords ELSE q
          /\ locationName' = IF found THEN toTitle(r.name) ELSE locationName
  /\ UNCHANGED <<graphVars, nameVars, propVars, otherVars>>

\* The main flow of part_000: the name is the feature's INTERSECTION_DESC;
\* reverseGeocode(userLat, userLon) in the else branch and in the catch block.
MainFlowFirstCoord ==
  /\ update = NoUpdate
  /\ \E data \in Lists(FlowFeatureChoices), q \in FlowPositions :
     \E r \in {findNearestIntersectionFirstCoord(q[1], q[2], data, DefaultMaxDist)} :
       LET found == r.kind = "match"
           first == data[r.feature].geometry.coordinates[1]
       IN /\ update' = Update("mainFirstCoord", q)
          /\ features' = data
          /\ call' = Call("findNearestIntersectionFirstCoord", q, DefaultMaxDist, "", <<>>, <<>>)
          /\ result' = r
          /\ outcome' = Reported(r)
          /\ geocode' = IF found THEN NoRequest ELSE Request(q[1], q[2])
          /\ intersectionCoords' = IF found THEN <<LatOf(first), LonOf(first)>>
                                   ELSE IF r.kind = "null" THEN q ELSE <<>>
          /\ locationName' = IF found THEN Prop(data[r.feature].properties, "INTERSECTION_DESC")
                             ELSE locationName
  /\ UNCHANGED <<graphVars, nameVars, propVars, otherVars>>

\* refreshLocation(data, userLat, userLon) of app.js: without a match the
\* output reads "No intersection found within 500 meters" and nothing else
\* happens; a TypeError of the resolver leaves the function.
RefreshLocation ==
  /\ update = NoUpdate
  /\ \E data \in Lists(FlowFeatureChoices), q \in FlowPositions :
     \E r \in {findNearestIntersectionFirstCoord(q[1], q[2], data, DefaultMaxDist)} :
       LET found == r.kind = "match"
       IN /\ update' = Update("refreshLocation", q)
          /\ features' = data
          /\ call' = Call("findNearestIntersectionFirstCoord", q, DefaultMaxDist, "", <<>>, <<>>)
          /\ result' = r
          /\ outcome' = Reported(r)
          /\ geocode' = IF found THEN NameRequest(data[r.feature]) ELSE NoRequest
          /\ locationName' = IF found /\ NameRequest(data[r.feature]) = NoRequest
                             THEN Prop(data[r.feature].properties, "INTERSECTION_DESC")
                             ELSE locationName
  /\ UNCHANGED <<intersectionCoords, graphVars, nameVars, propVars, otherVars>>

\* The reverse-geocoding service answers; the awaiting caller writes the
\* answer to #location-name (through toTitleCase in the main flow of part_002).
ReverseGeocodeResponse ==
  /\ geocode.state = "pending"
  /\ \E formatted \in GeocodeAnswers :
       /\ geocode' = [geocode EXCEPT !.state = "done", !.answer = formatted]
       /\ locationName' = IF update.caller \in {"mainHamilton", "mainSmart"}
                          THEN toTitle(formatted) ELSE formatted
  /\ UNCHANGED <<update, outcome, intersectionCoords, scanVars, graphVars, nameVars, propVars, otherVars>>

FlowNext ==
  \/ MainFlowHamilton
  \/ MainFlowSmart
  \/ MainFlowFirstCoord
  \/ RefreshLocation
  \/ ReverseGeocodeResponse

FlowSpec == FlowInit /\ [][FlowNext]_vars

\* ------------------------------------------------------ the claims of the callers

Position == <<update.userLat, update.userLon>>
\* The reverse-geocoding service has been asked about the visitor's position.
AskedAtPosition ==
  geocode.state # "idle" /\ geocode.lat = update.userLat /\ geocode.lon = update.userLon

\* C17: in the road-graph path the caller caps the distance of the node
\* nearestHamiltonNode returns: a nearest node farther than the radius (the
\* 1000 m of the main flow) is not displayed, and reverse geocoding at the
\* visitor's position is used instead.
C17_CapOnNearestNode ==
  (update.caller = "mainHamilton" /\ nodes # <<>>
     /\ nearestHamiltonNode(update.userLat, update.userLon, nodes).distance > SmartMaxDist)
  => (intersectionCoords = Position /\ AskedAtPosition)

\* #location-name shows the service's answer once it has arrived, and is
\* untouched until then.
NameFromAnswer ==
  /\ geocode.state = "pending" => locationName = <<>>
  /\ geocode.state = "done" =>
       locationName = IF update.caller \in {"mainHamilton", "mainSmart"}
                      THEN toTitle(geocode.answer) ELSE geocode.answer

\* C18 as stated: in every caller variant, when the resolver reports no match
\* within range, the caller asks the reverse-geocoding service about the
\* position and takes the location name from its answer.
C18_EveryCallerFallsBack ==
  outcome = "nomatch" => (AskedAtPosition /\ NameFromAnswer)

\* C18: when the resolver reports no match within range, the main flows ask
\* the reverse-geocoding service about the visitor's position, use that
\* position as the intersection and take the location name from the answer;
\* refreshLocation issues no request and leaves the location name as it was.
C18_MainFlowsFallBack ==
  outcome = "nomatch" =>
    IF update.caller = "refreshLocation"
    THEN geocode = NoRequest /\ locationName = <<>>
    ELSE AskedAtPosition /\ intersectionCoords = Position /\ NameFromAnswer

\* The point-based main flow found nothing within 1000 m in a collection
\* that is not empty, and the answer of the service is displayed.
C18_Witness ==
  /\ update.caller = "mainSmart"
  /\ outcome = "nomatch"
  /\ features # <<>>
  /\ geocode.state = "done"
  /\ geocode.answer = <<"12", " ", "king", " ", "St">>
  /\ locationName = <<"12", " ", "King", " ", "St">>

\* The first coordinate <<lat, lon>> of the matched feature.
MatchedFirstCoord ==
  <<LatOf(features[result.feature].geometry.coordinates[1]),
    LonOf(features[result.feature].geometry.coordinates[1])>>

\* C19 as stated: reverseGeocode is never called for a position update for
\* which the resolver returned an in-range match.
C19_RequestOnlyWithoutMatch ==
  geocode.state # "idle" => outcome # "match"

\* C19: reverseGeocode is called only when the resolver returned no in-range
\* match (or threw), then about the visitor's position, or, in
\* refreshLocation, when the matched feature has no INTERSECTION_DESC, then
\* about the feature's first coordinate.
C19_RequestOnlyWithoutName ==
  geocode.state # "idle" =>
    IF outcome = "match"
    THEN /\ update.caller = "refreshLocation"
         /\ Prop(features[result.feature].properties, "INTERSECTION_DESC") = <<>>
         /\ <<geocode.lat, geocode.lon>> = MatchedFirstCoord
    ELSE update.caller # "refreshLocation" /\ AskedAtPosition

\* refreshLocation matched a feature without INTERSECTION_DESC and asked the
\* service about the feature's coordinate, which is not the visitor's position.
C19_Witness ==
  /\ update.caller = "refreshLocation"
  /\ outcome = "match"
  /\ geocode.state = "pending"
  /\ <<geocode.lat, geocode.lon>> = MatchedFirstCoord
  /\ MatchedFirstCoord # Position

\* ------------------------------------------- nearestPointOnLineString on one line

\* A line has at most MaxVertices vertices.
MaxVertices == 3

\* The vertices <<lon, lat>> a line is drawn from and the positions
\* <<lat, lon>> of the visitor.  All lie within a few steps of each other, so
\* that whole decimetres keep the order of the distances.
LineVertices == {<<0, 0>>, <<4, 0>>, <<4, 4>>, <<0 - 2, 2>>}
LinePositions == {<<la, lo>> : la \in {0 - 2, 1, 2, 6}, lo \in {0 - 3, 1, 2, 6}}

LineInit == ScanIdle /\ GraphIdle /\ NameIdle /\ PropIdle /\ FlowIdle /\ OtherIdle

\* g.coordinates of a LineString, vertex by vertex; the same vertex may follow
\* itself.
AddVertex ==
  /\ nearestPoint = NoPoint
  /\ Len(polyline) < MaxVertices
  /\ \E v \in LineVertices : polyline' = Append(polyline, v)
  /\ UNCHANGED <<standing, nearestPoint, coreVars, circleVars, drawerVars, liveVars>>

\* candidate = nearestPointOnLineString(userLat, userLon, g.coordinates)
CallNearestPointOnLineString ==
  /\ nearestPoint = NoPoint
  /\ \E q \in LinePositions :
     \E c \in {nearestPointOnLineString(q[1], q[2], polyline)} :
       /\ standing' = q
       /\ nearestPoint' = [kind |-> IF c.thrown THEN "throw" ELSE "point", lat |-> c.lat, lon |-> c.lon]
  /\ UNCHANGED <<polyline, coreVars, circleVars, drawerVars, liveVars>>

LineNext == AddVertex \/ CallNearestPointOnLineString

LineSpec == LineInit /\ [][LineNext]_vars

\* ------------------------------------- the claims of nearestPointOnLineString

\* The projection of the visitor's position onto the line through a and b, as
\* the factor dot / vv, and the distance of a vertex.
Dot(a, b) == (standing[2] - a[1]) * (b[1] - a[1]) + (standing[1] - a[2]) * (b[2] - a[2])
SquaredLength(a, b) == (b[1] - a[1]) * (b[1] - a[1]) + (b[2] - a[2]) * (b[2] - a[2])
VertexDistance(v) == haversineDistance(standing[1], standing[2], v[2], v[1])
Returned == <<nearestPoint.lon, nearestPoint.lat>>
Between(x, u, w) == (u <= x /\ x <= w) \/ (w <= x /\ x <= u)

RECURSIVE WithoutDuplicates(_)
WithoutDuplicates(line) ==
  IF Len(line) < 2 THEN line
  ELSE IF line[1] = line[2] THEN WithoutDuplicates(Tail(line))
       ELSE <<line[1]>> \o WithoutDuplicates(Tail(line))
ZeroLength == {i \in 1..(Len(polyline) - 1) : polyline[i] = polyline[i + 1]}

\* The clamped projection onto every segment is a point of the grid, so that
\* the model's whole-step arithmetic is that of the source.
OnGrid(a, b) ==
  LET vv == SquaredLength(a, b)
      t == Clamp(0, vv, Dot(a, b))
  IN vv = 0 \/ ((t * (b[1] - a[1])) % vv = 0 /\ (t * (b[2] - a[2])) % vv = 0)
AllOnGrid == \A i \in 1..(Len(polyline) - 1) : OnGrid(polyline[i], polyline[i + 1])

C24_SymmetricAndZero ==
  /\ haversineDistance(standing[1], standing[2], standing[1], standing[2]) = 0
  /\ \A i \in 1..Len(polyline) :
       LET v == polyline[i]
       IN /\ haversineDistance(standing[1], standing[2], v[2], v[1])
               = haversineDistance(v[2], v[1], standing[1], standing[2])
          /\ haversineDistance(v[2], v[1], v[2], v[1]) = 0

\* A call measured the distance to a vertex away from the query position in
\* both coordinates.
C24_Witness ==
  /\ nearestPoint.kind = "point"
  /\ standing = <<6, 1>>
  /\ polyline = << <<4, 4>>, <<0 - 2, 2>> >>
  /\ haversineDistance(6, 1, 4, 4) > 0

\* C23: normalizeStreetName and baseName are idempotent: applying either to
\* its own result changes nothing, on the name typed and (before anything is
\* typed) on every property value of the dataset.
C23_Idempotent ==
  /\ normalizeStreetName(normalizeStreetName(name)) = normalizeStreetName(name)
  /\ name = <<>> =>
       \A v \in PropValues : /\ normalizeStreetName(normalizeStreetName(v)) = normalizeStreetName(v)
                             /\ baseName(baseName(v)) = baseName(v)
  /\ baseName(baseName(name)) = baseName(name)
  /\ applied => baseName(base) = base

\* baseName has been applied to a name that both functions change.
C23_Witness ==
  /\ applied
  /\ name = <<" ", "North", " ", " ", "St">>
  /\ base = <<"street">>
  /\ normalizeStreetName(name) = <<"North", " ", "St">>

\* C30: in every match of findNearestIntersectionSmart, major is true exactly
\* when a preferred field was given and the returned feature satisfies
\* isMajorByField; a match with major false never satisfies it; and the
\* reported distance is at most maxDistMeters.
ReturnedIsMajor ==
  isMajorByField(features[result.feature], call.preferMajorField, call.preferMajorValue)
C30_MajorFlag ==
  (call.op = "findNearestIntersectionSmart" /\ result.kind = "match") =>
    /\ result.major <=> (call.preferMajorField # "" /\ ReturnedIsMajor)
    /\ ~result.major => ~ReturnedIsMajor
    /\ LessEq(result.distance, call.maxDist)

\* A preference was given and a major feature is in the collection, but the
\* match returned is a nearer, non-major one.
C30_Witness ==
  /\ call.op = "findNearestIntersectionSmart"
  /\ result.kind = "match"
  /\ call.preferMajorField = "ROAD_TYPE"
  /\ ~result.major
  /\ \E i \in 1..Len(features) :
       isMajorByField(features[i], call.preferMajorField, call.preferMajorValue)

\* ------------------------------------------------------- the pulsing circle

\* The interval callbacks of one run are counted up to MaxTicks.
MaxTicks == 26

\* radius: 15; const minR = 10, maxR = 25, step = 3
InitialRadius == 15
minR == 10
maxR == 25
step == 3

\* The intersectionCoords the circle is drawn at.
CircleCenters == {<<0, 0>>, <<400, 0>>, <<3, 4>>, <<1, 1>>}

CircleInit == ScanIdle /\ GraphIdle /\ NameIdle /\ PropIdle /\ FlowIdle /\ OtherIdle

\* const next = growing ? r + step : r - step
NextRadius(r, grow) == IF grow THEN r + step ELSE r - step

\* if (next >= maxR) growing = false; if (next <= minR) growing = true;
NextGrowing(next, grow) == IF next <= minR THEN TRUE ELSE IF next >= maxR THEN FALSE ELSE grow

\* The main flow draws the circle, clears a running interval and starts a
\* new one with growing = true.
DrawCircle ==
  /\ circle = NoCircle
  /\ \E c \in CircleCenters : circle' = [onMap |-> TRUE, center |-> c, radius |-> InitialRadius]
  /\ growing' = TRUE
  /\ circleAnimationId' = 1
  /\ UNCHANGED <<ticks, coreVars, lineVars, drawerVars, liveVars>>

\* The interval callback, every 200 ms.
IntervalCallback ==
  /\ circleAnimationId # 0
  /\ ticks < MaxTicks
  /\ ticks' = ticks + 1
  /\ IF ~circle.onMap
     THEN /\ circleAnimationId' = 0
          /\ UNCHANGED <<circle, growing>>
     ELSE /\ circle' = [circle EXCEPT !.radius = NextRadius(circle.radius, growing)]
          /\ growing' = NextGrowing(NextRadius(circle.radius, growing), growing)
          /\ UNCHANGED circleAnimationId
  /\ UNCHANGED <<coreVars, lineVars, drawerVars, liveVars>>

\* The circle's layer is taken off the map.
RemoveCircle ==
  /\ circle.onMap
  /\ circle' = [circle EXCEPT !.onMap = FALSE]
  /\ UNCHANGED <<growing, circleAnimationId, ticks, coreVars, lineVars, drawerVars, liveVars>>

CircleNext == DrawCircle \/ IntervalCallback \/ RemoveCircle

CircleSpec == CircleInit /\ [][CircleNext]_vars

\* C29: after every tick the radius of the circle on the map lies within
\* [minR, maxR].
C29_RadiusWithinBounds ==
  (circle.onMap /\ ticks > 0) => (minR <= circle.radius /\ circle.radius <= maxR)

\* ------------------------------------------------------ the pull-up drawer

\* window.innerHeight in pixels; a pointer's clientY is one of ClientYs.
InnerHeight == 100
ClientYs == {0, 20, 32, 33, 50, 90}

DrawerInit == ScanIdle /\ GraphIdle /\ NameIdle /\ PropIdle /\ FlowIdle /\ OtherIdle

\* `translateY(${currentTranslateY}%)`: the decimal digits of the number.
TranslateY(y) == IF y < 10 THEN <<y>> ELSE <<y \div 10, y % 10>>

\* parseFloat(match[1]) of /translateY\(([-\d.]+)%\)/
parseFloat(digits) == IF Len(digits) = 1 THEN digits[1] ELSE 10 * digits[1] + digits[2]

\* getCurrentY(): the inline transform, else the class state.
getCurrentY ==
  IF transform # <<>> THEN parseFloat(transform) ELSE IF openClass THEN OPEN_Y ELSE CLOSED_Y

\* No clamping of the position.
clampYNone(y) == y

\* Math.max(OPEN_Y, Math.min(CLOSED_Y, y))
clampY(y) == IF y < OPEN_Y THEN OPEN_Y ELSE IF y > CLOSED_Y THEN CLOSED_Y ELSE y

\* setY(y, withAnimation): what it assigns.
setY(y, withAnimation) ==
  [currentTranslateY |-> clampY(y),
   draggingClass |-> ~withAnimation,
   transform |-> TranslateY(clampY(y)),
   openClass |-> clampY(y) <= OPEN_Y + 1]

Apply(s) ==
  /\ currentTranslateY' = s.currentTranslateY
  /\ draggingClass' = s.draggingClass
  /\ transform' = s.transform
  /\ openClass' = s.openClass

\* (OPEN_Y + CLOSED_Y) / 2
Midpoint == (OPEN_Y + CLOSED_Y) \div 2

\* snap(): the target after a drag that ended at y.
snap(y) == setY(IF y <= Midpoint THEN OPEN_Y ELSE CLOSED_Y, TRUE)

\* (dy / window.innerHeight) * 100
DeltaPercent(clientY) == ((clientY - startY) * 100) \div InnerHeight

\* The script runs on a page whose container has the class 'open' or not:
\* setY(getCurrentY(), true).
InitPullupGestures ==
  /\ transform = <<>>
  /\ \E open \in BOOLEAN : Apply(setY(IF open THEN OPEN_Y ELSE CLOSED_Y, TRUE))
  /\ UNCHANGED <<isDragging, startY, startTranslateY, userSelect, settled,
                 coreVars, lineVars, circleVars, liveVars>>

\* handle 'click'
Click ==
  /\ transform # <<>>
  /\ Apply(setY(IF getCurrentY > Midpoint THEN OPEN_Y ELSE CLOSED_Y, TRUE))
  /\ settled' = TRUE
  /\ UNCHANGED <<isDragging, startY, startTranslateY, userSelect,
                 coreVars, lineVars, circleVars, liveVars>>

\* handle 'touchstart'
TouchStart ==
  /\ transform # <<>>
  /\ \E clientY \in ClientYs : startY' = clientY
  /\ isDragging' = TRUE
  /\ startTranslateY' = getCurrentY
  /\ Apply(setY(getCurrentY, FALSE))
  /\ UNCHANGED <<userSelect, settled, coreVars, lineVars, circleVars, liveVars>>

\* handle 'touchmove'
TouchMove ==
  /\ isDragging
  /\ \E clientY \in ClientYs : Apply(setY(startTranslateY + DeltaPercent(clientY), FALSE))
  /\ UNCHANGED <<isDragging, startY, startTranslateY, userSelect, settled,
                 coreVars, lineVars, circleVars, liveVars>>

\* handle 'touchend'
TouchEnd ==
  /\ isDragging
  /\ isDragging' = FALSE
  /\ Apply(snap(currentTranslateY))
  /\ settled' = TRUE
  /\ UNCHANGED <<startY, startTranslateY, userSelect, coreVars, lineVars, circleVars, liveVars>>

\* handle 'mousedown'
MouseDown ==
  /\ transform # <<>>
  /\ \E clientY \in ClientYs : startY' = clientY
  /\ isDragging' = TRUE
  /\ startTranslateY' = getCurrentY
  /\ Apply(setY(getCurrentY, FALSE))
  /\ userSelect' = "none"
  /\ UNCHANGED <<settled, coreVars, lineVars, circleVars, liveVars>>

\* window 'mousemove'
MouseMove ==
  /\ isDragging
  /\ \E clientY \in ClientYs : Apply(setY(startTranslateY + DeltaPercent(clientY), FALSE))
  /\ UNCHANGED <<isDragging, startY, startTranslateY, userSelect, settled,
                 coreVars, lineVars, circleVars, liveVars>>

\* window 'mouseup'
MouseUp ==
  /\ isDragging
  /\ isDragging' = FALSE
  /\ userSelect' = ""
  /\ Apply(snap(currentTranslateY))
  /\ settled' = TRUE
  /\ UNCHANGED <<startY, startTranslateY, coreVars, lineVars, circleVars, liveVars>>

DrawerNext ==
  \/ InitPullupGestures
  \/ Click
  \/ TouchStart
  \/ TouchMove
  \/ TouchEnd
  \/ MouseDown
  \/ MouseMove
  \/ MouseUp

DrawerSpec == DrawerInit /\ [][DrawerNext]_vars

\* C28: the drawer position stays within [OPEN_Y, CLOSED_Y]; the class 'open'
\* is present exactly when the position is at most OPEN_Y + 1; and when no
\* drag is in progress after a drag has ended or a click was handled, the
\* position is exactly OPEN_Y or CLOSED_Y.
C28_DrawerPosition ==
  /\ OPEN_Y <= currentTranslateY /\ currentTranslateY <= CLOSED_Y
  /\ openClass <=> currentTranslateY <= OPEN_Y + 1
  /\ (settled /\ ~isDragging) => currentTranslateY \in {OPEN_Y, CLOSED_Y}

\* A drag that was pulled beyond the open position has ended and the drawer
\* has snapped open.
C28_Witness ==
  /\ settled /\ ~isDragging
  /\ startTranslateY = CLOSED_Y
  /\ startY = 90
  /\ currentTranslateY = OPEN_Y
  /\ openClass

\* ---------------------------------------------------- live location tracking

\* The getCurrentPosition calls of one run are counted up to MaxUpdates.
MaxUpdates == 3

\* toronto.geojson: features 1, 2, 4 and 5 of FlowFeatureChoices alone, none,
\* or the unnamed feature before the one to the north.
LiveDatasets ==
  {<<>>, <<FlowFeatureChoices[1]>>, <<FlowFeatureChoices[2]>>, <<FlowFeatureChoices[4]>>,
   <<FlowFeatureChoices[5]>>, <<FlowFeatureChoices[2], FlowFeatureChoices[5]>>}

\* data.display_name || "Unnamed Location"
LiveAnswers == {<<"12", " ", "king", " ", "St">>, <<"Unnamed", " ", "Location">>}

LiveInit == ScanIdle /\ GraphIdle /\ NameIdle /\ PropIdle /\ FlowIdle /\ OtherIdle

\* Tracking that is started whatever became of the fetch.
StartedAlways(settled_as) == TRUE

\* .then(data => { geoData = data; startLiveLocationTracking(); }) runs only
\* when the fetch and res.json() were fulfilled.
Started(settled_as) == settled_as = "loaded"

\* One callback of getCurrentPosition: the position, what refreshLocation
\* found, its reverse-geocoding request, what it did to the marker, and
\* whether geoData was null.
Entry(q, found, request, marker, nullData) ==
  [userLat |-> q[1], userLon |-> q[2], outcome |-> found, request |-> request,
   marker |-> marker, nullData |-> nullData]

\* fetch("toronto.geojson") and res.json() are fulfilled.
FetchResolved ==
  /\ fetchState = "pending"
  /\ fetchState' = "loaded"
  /\ \E data \in LiveDatasets : geoData' = [loaded |-> TRUE, features |-> data]
  /\ timer' = Started("loaded")
  /\ positionRequests' = IF Started("loaded") THEN 1 ELSE 0
  /\ UNCHANGED <<updates, display, userMarker, markers, coreVars, lineVars, circleVars, drawerVars>>

\* The fetch or res.json() is rejected: the catch handler.
FetchRejected ==
  /\ fetchState = "pending"
  /\ fetchState' = "failed"
  /\ timer' = Started("failed")
  /\ positionRequests' = IF Started("failed") THEN 1 ELSE 0
  /\ display' = [display EXCEPT !.output = "failed", !.outputOf = 0]
  /\ UNCHANGED <<geoData, updates, userMarker, markers, coreVars, lineVars, circleVars, drawerVars>>

\* setInterval(() => navigator.geolocation.getCurrentPosition(...), 10000)
TimerFires ==
  /\ timer
  /\ Len(updates) + positionRequests < MaxUpdates
  /\ positionRequests' = positionRequests + 1
  /\ UNCHANGED <<fetchState, geoData, timer, updates, display, userMarker, markers,
                 coreVars, lineVars, circleVars, drawerVars>>

\* updateLocation(position): refreshLocation(geoData, userLat, userLon).
\* data.features of null and a TypeError of the resolver leave the function
\* before anything is written; a named match is written at once, an unnamed
\* one when its reverse-geocoding request is answered.
UpdateLocation ==
  /\ positionRequests > 0
  /\ positionRequests' = positionRequests - 1
  /\ \E q \in FlowPositions :
     \E r \in {IF geoData.loaded
               THEN findNearestIntersectionFirstCoord(q[1], q[2], geoData.features, DefaultMaxDist)
               ELSE Thrown} :
       LET i == Len(updates) + 1
           found == r.kind = "match"
           request == IF found THEN NameRequest(geoData.features[r.feature]) ELSE NoRequest
           marker == IF r.kind = "throw" THEN "none" ELSE IF userMarker.set THEN "moved" ELSE "created"
       IN /\ updates' = Append(updates,
                               Entry(q, Reported(r), IF request = NoRequest THEN "none" ELSE "pending",
                                     marker, ~geoData.loaded))
          /\ display' =
               IF found /\ request = NoRequest
               THEN [locationName |-> Prop(geoData.features[r.feature].properties, "INTERSECTION_DESC"),
                     nameOf |-> i, output |-> "match", outputOf |-> i]
               ELSE IF r.kind = "null"
               THEN [display EXCEPT !.output = "nomatch", !.outputOf = i]
               ELSE display
          /\ userMarker' = IF r.kind = "throw" THEN userMarker
                           ELSE [set |-> TRUE, lat |-> q[1], lon |-> q[2]]
          /\ markers' = IF marker = "created" THEN markers + 1 ELSE markers
  /\ UNCHANGED <<fetchState, geoData, timer, coreVars, lineVars, circleVars, drawerVars>>

\* locationError(error)
LocationError ==
  /\ positionRequests > 0
  /\ positionRequests' = positionRequests - 1
  /\ updates' = Append(updates, Entry(<<0, 0>>, "error", "none", "none", ~geoData.loaded))
  /\ display' = [display EXCEPT !.output = "error", !.outputOf = Len(updates) + 1]
  /\ UNCHANGED <<fetchState, geoData, timer, userMarker, markers,
                 coreVars, lineVars, circleVars, drawerVars>>

\* reverseGeocode of update i is answered: the async function of that
\* refreshLocation call writes #location-name and #output.
LiveGeocodeResponse ==
  \E i \in 1..Len(updates) :
    /\ updates[i].request = "pending"
    /\ updates' = [updates EXCEPT ![i].request = "done"]
    /\ \E answer \in LiveAnswers :
         display' = [locationName |-> answer, nameOf |-> i, output |-> "match", outputOf |-> i]
    /\ UNCHANGED <<fetchState, geoData, timer, positionRequests, userMarker, markers,
                   coreVars, lineVars, circleVars, drawerVars>>

\* reverseGeocode of update i is rejected (fetch or response.json()): the
\* async function of that call ends without writing.
LiveGeocodeRejected ==
  \E i \in 1..Len(updates) :
    /\ updates[i].request = "pending"
    /\ updates' = [updates EXCEPT ![i].request = "failed"]
    /\ UNCHANGED <<fetchState, geoData, timer, positionRequests, display, userMarker, markers,
                   coreVars, lineVars, circleVars, drawerVars>>

LiveNext ==
  \/ FetchResolved
  \/ FetchRejected
  \/ TimerFires
  \/ UpdateLocation
  \/ LocationError
  \/ LiveGeocodeResponse
  \/ LiveGeocodeRejected

LiveSpec == LiveInit /\ [][LiveNext]_vars

\* C25: once no reverse-geocoding request is pending, #output is that of the
\* most recent position update, when that update found no intersection or
\* has written its match.
Latest == Len(updates)
LatestWrote ==
  \/ updates[Latest].outcome = "nomatch"
  \/ updates[Latest].outcome = "match" /\ updates[Latest].request \in {"none", "done"}
C25_LatestDisplayed ==
  (updates # <<>> /\ LatestWrote /\ \A i \in 1..Latest : updates[i].request # "pending")
    => display.outputOf = Latest

RefreshCalls == {i \in 1..Len(updates) : updates[i].outcome # "error"}
C27_FirstCreatesLaterMove ==
  /\ markers <= 1
  /\ \A i \in RefreshCalls :
       updates[i].marker = IF \A j \in RefreshCalls : i <= j THEN "created" ELSE "moved"

====
